---- MODULE Spec2Model ----
(***************************************************************************)
(* Model of the code sandbox of src/src/lib/sandbox.ts: the section parser *)
(* (parseCodeIntoSections), the type-erasure transform                     *)
(* (cleanCodeForExecution) and the execution engine (executeCode).         *)
(*                                                                         *)
(* Texts are sequences of one-character strings, so that the regular       *)
(* expressions of the source are matched character by character with the   *)
(* priorities of a backtracking matcher (greedy and lazy quantifiers,      *)
(* leftmost alternative first), as the JavaScript engine matches them.     *)
(***************************************************************************)
EXTENDS Integers, Sequences, FiniteSets, TLC

VARIABLES
    src,              \* parser: the blocks of the text handed to parseCodeIntoSections
    ppc,              \* parser: "ready" before the call, "done" after it
    sections,         \* parser: the CodeSection[] the call returned
    frag,             \* the lines of the code the host handed to executeCode
    hostpc,           \* the host: "idle", "running" (inside executeCode), "returned"
    console,          \* the global console: the function installed on each channel
    stack,            \* the activations of executeCode, innermost last
    logs,             \* logs[id]: the logs array of call id (shared with its closures)
    originalConsole,  \* originalConsole[id]: the channels saved by call id
    result,           \* <<>>, or <<the SandboxResult returned to the host>>
    hostExc,          \* <<>>, or <<the exception executeCode let through>>
    realOut,          \* the calls the native console functions have received
    now,              \* the clock read by new Date()
    compiled,         \* has new Function(...) been called
    hostLogs,         \* the number of console calls the host made itself
    calls,            \* calls[id]: the code call id was given, the call that was
                      \* active when it started (0: none), the result it returned
    timers,           \* the callbacks handed to setTimeout that have not run yet
    region,           \* the results region of the page (resultsContainer)
    load,             \* loadCodeExample: its place, its argument, what it holds
    strip,            \* cleanCodeForExecution applied to a text, and to its result
    page              \* the page: the concept display, the active button, the
                      \* calls of showConcept that wait for their source

parseVars == <<src, ppc, sections>>
execVars == <<frag, hostpc, console, stack, logs, originalConsole, result, hostExc,
              realOut, now, compiled, hostLogs, calls, timers, region, load, strip,
          page>>
execVarsButLoad == <<frag, hostpc, console, stack, logs, originalConsole, result, hostExc,
                     realOut, now, compiled, hostLogs, calls, timers, region>>
vars == <<src, ppc, sections, frag, hostpc, console, stack, logs, originalConsole, result,
          hostExc, realOut, now, compiled, hostLogs, calls, timers, region, load, strip,
          page>>

----------------------------------------------------------------------------
(* Characters and character classes *)

NL == "\n"
Digits == {"0", "1", "2", "3", "4", "5", "6", "7", "8", "9"}
Lower == {"a", "b", "c", "d", "e", "f", "g", "h", "i", "j", "k", "l", "m",
          "n", "o", "p", "q", "r", "s", "t", "u", "v", "w", "x", "y", "z"}
Upper == {"A", "B", "C", "D", "E", "F", "G", "H", "I", "J", "K", "L", "M",
          "N", "O", "P", "Q", "R", "S", "T", "U", "V", "W", "X", "Y", "Z"}
\* \w, \s and \d of a JavaScript regular expression
WordCh == Lower \cup Upper \cup Digits \cup {"_"}
SpaceCh == {" ", "\n", "\t", "\r"}

Max(a, b) == IF a >= b THEN a ELSE b
MinOf(S) == CHOOSE x \in S : \A y \in S : x <= y
MaxOf(S) == CHOOSE x \in S : \A y \in S : y <= x

RECURSIVE Flatten(_)
Flatten(ss) == IF ss = <<>> THEN <<>> ELSE Head(ss) \o Flatten(Tail(ss))

RepeatCh(c, n) == [i \in 1..n |-> c]

----------------------------------------------------------------------------
(* Regular expressions: syntax trees and the backtracking matcher *)

Set(S) == [t |-> "set", s |-> S]              \* [abc], \s, \d, \w, a literal
NSet(S) == [t |-> "nset", s |-> S]            \* [^abc]
Lit(c) == Set({c})
Dot == NSet({"\n", "\r"})                     \* .
AnyCh == NSet({})                             \* [\s\S]
Cat(a) == [t |-> "cat", a |-> a]
Alt(a) == [t |-> "alt", a |-> a]
Rep(r, lo, hi) == [t |-> "rep", r |-> r, lo |-> lo, hi |-> hi, lazy |-> FALSE]
RepLazy(r, lo, hi) == [t |-> "rep", r |-> r, lo |-> lo, hi |-> hi, lazy |-> TRUE]
Star(r) == Rep(r, 0, -1)                      \* r*
Plus(r) == Rep(r, 1, -1)                      \* r+
Opt(r) == Rep(r, 0, 1)                        \* r?
StarLazy(r) == RepLazy(r, 0, -1)              \* r*?
PlusLazy(r) == RepLazy(r, 1, -1)              \* r+?
Grp(n, r) == [t |-> "grp", n |-> n, r |-> r]  \* the n-th capturing group
Bol == [t |-> "bol"]                          \* ^ under the m flag
Eol == [t |-> "eol"]                          \* $ under the m flag
\* a literal word: Word(<<"a", "s">>) is the expression  as
Word(w) == [t |-> "str", w |-> w]

MaxGroups == 3
NoCaps == [n \in 1..MaxGroups |-> <<0, 0>>]
Fail == [ok |-> FALSE, end |-> 0, caps |-> NoCaps]

Dec(n) == IF n > 0 THEN n - 1 ELSE n

\* does the character class r accept the character ch
Accepts(r, ch) == IF r.t = "set" THEN ch \in r.s ELSE ch \notin r.s
\* the number of consecutive characters from position i that r accepts
RunLength(r, s, i) ==
    CHOOSE n \in 0..(Len(s) + 1 - i) :
        /\ (i + n > Len(s) \/ ~Accepts(r, s[i + n]))
        /\ \A j \in i..(i + n - 1) : Accepts(r, s[j])

\* The matcher is a backtracking machine. A configuration holds the stack k
\* of the expressions still to match one after the other, the position i,
\* the captures c, and the choice points cps to return to on a failure, the
\* most recent last. A choice point is the configuration to resume from.
Config(k, i, c, cps) == [k |-> k, i |-> i, c |-> c, cps |-> cps, halt |-> FALSE, ok |-> FALSE]
Choice(k, i, c) == [k |-> k, i |-> i, c |-> c]

\* a failure: resume from the most recent choice point, or halt without a match
Backtrack(m) ==
    IF m.cps = <<>> THEN [m EXCEPT !.halt = TRUE, !.ok = FALSE]
    ELSE LET p == m.cps[Len(m.cps)]
         IN Config(p.k, p.i, p.c, SubSeq(m.cps, 1, Len(m.cps) - 1))

\* one step of the machine on the text s
Step(m, s) ==
    IF m.k = <<>> THEN [m EXCEPT !.halt = TRUE, !.ok = TRUE]
    ELSE LET h == Head(m.k)
             rest == Tail(m.k)
             Go(k, i) == Config(k, i, m.c, m.cps)
             \* continue with k, keeping alt as the choice to come back to
             GoOr(k, alt) == Config(k, m.i, m.c, Append(m.cps, Choice(alt, m.i, m.c)))
         IN CASE h.t \in {"set", "nset"} ->
                    IF m.i <= Len(s) /\ Accepts(h, s[m.i]) THEN Go(rest, m.i + 1)
                    ELSE Backtrack(m)
              [] h.t = "str" ->
                    IF /\ m.i + Len(h.w) - 1 <= Len(s)
                       /\ SubSeq(s, m.i, m.i + Len(h.w) - 1) = h.w
                    THEN Go(rest, m.i + Len(h.w))
                    ELSE Backtrack(m)
              [] h.t = "cat" -> Go(h.a \o rest, m.i)
              [] h.t = "alt" ->
                    IF h.a = <<>> THEN Backtrack(m)
                    ELSE GoOr(<<Head(h.a)>> \o rest, <<Alt(Tail(h.a))>> \o rest)
              [] h.t = "rep" /\ h.r.t \in {"set", "nset"} ->
                    \* a quantified character class takes lo..top characters:
                    \* the most first when greedy, the fewest first when lazy
                    LET run == RunLength(h.r, s, m.i)
                        top == IF h.hi >= 0 /\ h.hi < run THEN h.hi ELSE run
                    IN IF h.lo > top THEN Backtrack(m)
                       ELSE IF h.lo = top THEN Go(rest, m.i + top)
                       ELSE IF h.lazy
                       THEN Config(rest, m.i + h.lo, m.c,
                                   Append(m.cps, Choice(<<[h EXCEPT !.lo = h.lo + 1]>> \o rest,
                                                        m.i, m.c)))
                       ELSE Config(rest, m.i + top, m.c,
                                   Append(m.cps, Choice(<<[h EXCEPT !.hi = top - 1]>> \o rest,
                                                        m.i, m.c)))
              [] h.t = "rep" /\ h.r.t \notin {"set", "nset"} ->
                    LET again == <<h.r, [h EXCEPT !.lo = Dec(h.lo), !.hi = Dec(h.hi)]>> \o rest
                    IN IF h.hi = 0 THEN Go(rest, m.i)
                       ELSE IF h.lo > 0 THEN Go(again, m.i)
                       ELSE IF h.lazy THEN GoOr(rest, again)
                       ELSE GoOr(again, rest)
              [] h.t = "grp" ->
                    Go(<<[t |-> "open", n |-> h.n], h.r, [t |-> "close", n |-> h.n]>> \o rest,
                       m.i)
              [] h.t = "open" ->
                    Config(rest, m.i, [m.c EXCEPT ![h.n] = <<m.i, 0>>], m.cps)
              [] h.t = "close" ->
                    Config(rest, m.i, [m.c EXCEPT ![h.n] = <<m.c[h.n][1], m.i>>], m.cps)
              [] h.t = "bol" ->
                    IF m.i = 1 \/ s[m.i - 1] \in {"\n", "\r"} THEN Go(rest, m.i)
                    ELSE Backtrack(m)
              [] h.t = "eol" ->
                    IF m.i = Len(s) + 1 \/ s[m.i] \in {"\n", "\r"} THEN Go(rest, m.i)
                    ELSE Backtrack(m)
              [] h.t = "bos" -> IF m.i = 1 THEN Go(rest, m.i) ELSE Backtrack(m)
              [] h.t = "eos" -> IF m.i = Len(s) + 1 THEN Go(rest, m.i) ELSE Backtrack(m)

\* The machine run until it halts. The steps are taken 2^n at a time, n
\* growing, so that the depth of the evaluation grows with the logarithm of
\* the number of steps.
RECURSIVE Steps(_, _, _)
Steps(m, s, n) ==
    IF m.halt THEN m
    ELSE IF n = 0 THEN Step(m, s)
    ELSE Steps(Steps(m, s, n - 1), s, n - 1)
RECURSIVE RunFrom(_, _, _)
RunFrom(m, s, n) == IF m.halt THEN m ELSE RunFrom(Steps(m, s, n), s, n + 1)
Run(m, s) == RunFrom(m, s, 0)

\* the result of a halted machine: [ok, end (exclusive), caps]
Outcome(m) == IF m.ok THEN [ok |-> TRUE, end |-> m.i, caps |-> m.c] ELSE Fail
\* RegExp.prototype.exec at one start position
MatchAt(re, s, i) == Outcome(Run(Config(<<re>>, i, NoCaps, <<>>), s))

\* The text of a capturing group of a match (the empty text when the group
\* did not take part in the match)
Cap(s, m, n) ==
    IF m.caps[n][2] = 0 THEN <<>> ELSE SubSeq(s, m.caps[n][1], m.caps[n][2] - 1)

\* The successive matches of a g-flagged expression, leftmost first and
\* non-overlapping: each is [index, endIndex (exclusive), caps]. all[i] is
\* the result of exec at the start position i; the search resumes where the
\* previous match ended (one further after an empty match).
RECURSIVE Leftmost(_, _)
Following(all, i) ==
    <<[index |-> i, endIndex |-> all[i].end, caps |-> all[i].caps]>>
      \o Leftmost(all, IF all[i].end = i THEN i + 1 ELSE all[i].end)
Leftmost(all, from) ==
    IF \A i \in from..Len(all) : ~all[i].ok THEN <<>>
    ELSE Following(all, CHOOSE i \in from..Len(all) :
                            all[i].ok /\ \A j \in from..(i - 1) : ~all[j].ok)

MatchAll(re, s) == Leftmost([i \in 1..(Len(s) + 1) |-> MatchAt(re, s, i)] \o <<>>, 1)

\* String.prototype.trim
IsBlank(s) == \A i \in 1..Len(s) : s[i] \in SpaceCh
Trim(s) ==
    IF IsBlank(s) THEN <<>>
    ELSE LET lo == CHOOSE i \in 1..Len(s) :
                       s[i] \notin SpaceCh /\ \A j \in 1..(i - 1) : s[j] \in SpaceCh
             hi == CHOOSE i \in 1..Len(s) :
                       s[i] \notin SpaceCh /\ \A j \in (i + 1)..Len(s) : s[j] \in SpaceCh
         IN SubSeq(s, lo, hi)

\* parseInt(digits, 10)
DigitVal(d) ==
    CASE d = "0" -> 0 [] d = "1" -> 1 [] d = "2" -> 2 [] d = "3" -> 3 [] d = "4" -> 4
      [] d = "5" -> 5 [] d = "6" -> 6 [] d = "7" -> 7 [] d = "8" -> 8 [] d = "9" -> 9
RECURSIVE ParseInt(_)
ParseInt(ds) ==
    IF ds = <<>> THEN 0
    ELSE ParseInt(SubSeq(ds, 1, Len(ds) - 1)) * 10 + DigitVal(ds[Len(ds)])

----------------------------------------------------------------------------
(* parseCodeIntoSections *)

SepMin == 60

\* /\/\/\s*={60,}\s*\n\/\/\s*SECTION\s+(\d+):\s*(.+?)\s*\n\/\/\s*={60,}/g
sectionPattern ==
    Cat(<<Lit("/"), Lit("/"), Star(Set(SpaceCh)), Rep(Lit("="), SepMin, -1),
          Star(Set(SpaceCh)), Lit(NL),
          Lit("/"), Lit("/"), Star(Set(SpaceCh)),
          Word(<<"S", "E", "C", "T", "I", "O", "N">>), Plus(Set(SpaceCh)),
          Grp(1, Plus(Set(Digits))), Lit(":"), Star(Set(SpaceCh)),
          Grp(2, PlusLazy(Dot)), Star(Set(SpaceCh)), Lit(NL),
          Lit("/"), Lit("/"), Star(Set(SpaceCh)), Rep(Lit("="), SepMin, -1)>>)

TitleComplet == <<"C", "o", "d", "e", " ", "c", "o", "m", "p", "l", "e", "t">>
TitleSection == <<"S", "e", "c", "t", "i", "o", "n">>

\* the record pushed for one match: lines 79-86
HeaderOf(code, m, g1, g2) ==
    [num |-> IF g1 # <<>> THEN ParseInt(g1) ELSE 0,
     title |-> IF g2 # <<>> THEN Trim(g2) ELSE TitleSection,
     index |-> m.index,
     endIndex |-> m.endIndex]

HeadersOf(code, ms) ==
    [k \in 1..Len(ms) |-> HeaderOf(code, ms[k], Cap(code, ms[k], 1), Cap(code, ms[k], 2))]

\* the while loop over sectionPattern.exec(code): the matches array
HeaderMatches(code) == HeadersOf(code, MatchAll(sectionPattern, code))

\* Variant of SectionEnd that runs every section to the end of the text; it
\* differs from SectionEnd on a text of two headers.
SectionEndAtEof(code, matches, i) == Len(code) + 1

\* where the content of the section of matches[i] stops: the start of the
\* next header, or the end of the text (exclusive)
SectionEnd(code, matches, i) ==
    IF i + 1 <= Len(matches) THEN matches[i + 1].index ELSE Len(code) + 1

\* Variant of KeepSection that keeps the empty sections too.
KeepAlways(sectionContent) == TRUE

\* if (sectionContent): a section is kept when its trimmed content is not empty
KeepSection(sectionContent) == sectionContent # <<>>

\* the section pushed for matches[i], or none
SectionOf(match, sectionContent) ==
    IF KeepSection(sectionContent)
    THEN <<[title |-> match.title, content |-> sectionContent, sectionNumber |-> match.num]>>
    ELSE <<>>

\* the for loop: the sections of the matches i..end, empty ones skipped
RECURSIVE ExtractSections(_, _, _)
ExtractSections(code, matches, i) ==
    IF i > Len(matches) THEN <<>>
    ELSE SectionOf(matches[i],
                   Trim(SubSeq(code, matches[i].endIndex, SectionEnd(code, matches, i) - 1)))
           \o ExtractSections(code, matches, i + 1)

\* Variant of Fallback that trims the content.
FallbackTrimmed(code) == <<[title |-> TitleComplet, content |-> Trim(code), sectionNumber |-> 1]>>

\* the section returned when no header is found
Fallback(code) == <<[title |-> TitleComplet, content |-> code, sectionNumber |-> 1]>>

\* Variant of SectionsOf that falls back to the whole text when every section
\* is empty.
SectionsOrFallback(code, matches) ==
    IF Len(matches) = 0 \/ ExtractSections(code, matches, 1) = <<>>
    THEN Fallback(code)
    ELSE ExtractSections(code, matches, 1)

\* the choice between the fallback and the sections of the matches
SectionsOf(code, matches) ==
    IF Len(matches) = 0 THEN Fallback(code) ELSE ExtractSections(code, matches, 1)

parseCodeIntoSections(code) == SectionsOf(code, HeaderMatches(code))

----------------------------------------------------------------------------
(* String.prototype.replace and split *)

\* the text s with the k-th of the matches ms replaced by reps[k]: the pieces
\* of s between the matches at the odd places, the replacements at the even
Pieces(s, ms, reps) ==
    Flatten([j \in 1..(2 * Len(ms) + 1) |->
               IF j % 2 = 1
               THEN SubSeq(s, IF j = 1 THEN 1 ELSE ms[(j - 1) \div 2].endIndex,
                              IF j = 2 * Len(ms) + 1 THEN Len(s)
                              ELSE ms[(j + 1) \div 2].index - 1)
               ELSE reps[j \div 2]])

\* A replacement string: pieces of literal text and references $n to the
\* capturing groups.
Text(w) == [g |-> 0, lit |-> w]
Ref(n) == [g |-> n, lit |-> <<>>]
\* the replacement string, expanded for the match m of s
Expand(template, s, m) ==
    Flatten([k \in 1..Len(template) |->
               IF template[k].g = 0 THEN template[k].lit ELSE Cap(s, m, template[k].g)])
Expanded(template, s, ms) ==
    Pieces(s, ms, [k \in 1..Len(ms) |-> Expand(template, s, ms[k])])

\* s.replace(re, template) for a g-flagged re: every match replaced
ReplaceAll(re, s, template) ==
    IF s = <<>> THEN s ELSE Expanded(template, s, MatchAll(re, s))

\* s.replace(re, template) for an unflagged re: the leftmost match alone
FirstOf(ms) == IF ms = <<>> THEN ms ELSE <<ms[1]>>
ReplaceFirst(re, s, template) == Expanded(template, s, FirstOf(MatchAll(re, s)))

\* the replacement strings '' and '$1'
Empty == <<>>
Group1 == <<Ref(1)>>
\* match: the text matched
MatchText(s, m) == SubSeq(s, m.index, m.endIndex - 1)

\* s.split(','): the pieces between the separators (always at least one)
Split(s, sep) ==
    LET at == {i \in 1..Len(s) : s[i] = sep}
        n == Cardinality(at)
        \* the position of the k-th separator; 0 before the first, Len+1 after the last
        pos(k) == IF k = 0 THEN 0
                  ELSE IF k > n THEN Len(s) + 1
                  ELSE CHOOSE i \in at : Cardinality({j \in at : j < i}) = k - 1
    IN [k \in 1..(n + 1) |-> SubSeq(s, pos(k - 1) + 1, pos(k) - 1)]

\* parts.filter(p => p.length > 0).join(', ')
RECURSIVE JoinNonEmpty(_, _)
JoinNonEmpty(parts, sep) ==
    IF parts = <<>> THEN <<>>
    ELSE LET rest == JoinNonEmpty(Tail(parts), sep)
         IN IF Head(parts) = <<>> THEN rest
            ELSE IF rest = <<>> THEN Head(parts)
            ELSE Head(parts) \o sep \o rest

StartsWith(s, w) == Len(s) >= Len(w) /\ SubSeq(s, 1, Len(w)) = w

----------------------------------------------------------------------------
(* cleanCodeForExecution: the fifteen rewriting steps, in the order of the  *)
(* source                                                                   *)

Ws == Set(SpaceCh)
Wd == Set(WordCh)
Bos == [t |-> "bos"]                          \* ^ without the m flag
Eos == [t |-> "eos"]                          \* $ without the m flag

\* Variant of reImport without the m flag: ^ and $ are the ends of the text.
reImportNoFlag ==
    Cat(<<Bos, Word(<<"i", "m", "p", "o", "r", "t">>), Plus(Ws), Star(Dot), Eos>>)
\* /^import\s+.*$/gm
reImport == Cat(<<Bol, Word(<<"i", "m", "p", "o", "r", "t">>), Plus(Ws), Star(Dot), Eol>>)
\* /^export\s+(default\s+)?/gm
reExport ==
    Cat(<<Bol, Word(<<"e", "x", "p", "o", "r", "t">>), Plus(Ws),
          Opt(Grp(1, Cat(<<Word(<<"d", "e", "f", "a", "u", "l", "t">>), Plus(Ws)>>)))>>)
\* /\/\*\*[\s\S]*?\*\//g
reJsDoc == Cat(<<Word(<<"/", "*", "*">>), StarLazy(AnyCh), Word(<<"*", "/">>)>>)
TypeOrInterface == Grp(1, Alt(<<Word(<<"t", "y", "p", "e">>), Word(<<"i", "n", "t", "e", "r", "f", "a", "c", "e">>)>>))
\* /^(type|interface)\s+\w+[^=]*=\s*[^;]+;?/gm
reTypeAlias ==
    Cat(<<Bol, TypeOrInterface, Plus(Ws), Plus(Wd), Star(NSet({"="})), Lit("="),
          Star(Ws), Plus(NSet({";"})), Opt(Lit(";"))>>)
\* /^(type|interface)\s+\w+\s*\{[\s\S]*?\}\s*$/gm
reInterface ==
    Cat(<<Bol, TypeOrInterface, Plus(Ws), Plus(Wd), Star(Ws), Lit("{"),
          StarLazy(AnyCh), Lit("}"), Star(Ws), Eol>>)
\* <[A-Z]\w*(?:,\s*[A-Z]\w*)*>
GenericList ==
    Cat(<<Lit("<"), Set(Upper), Star(Wd),
          Star(Cat(<<Lit(","), Star(Ws), Set(Upper), Star(Wd)>>)), Lit(">")>>)
\* /(function\s+\w+)\s*<[A-Z]\w*(?:,\s*[A-Z]\w*)*>/g
reFunctionGeneric ==
    Cat(<<Grp(1, Cat(<<Word(<<"f", "u", "n", "c", "t", "i", "o", "n">>), Plus(Ws), Plus(Wd)>>)), Star(Ws), GenericList>>)
\* /(const\s+\w+\s*:\s*\([^)]*\)\s*=>)\s*<[A-Z]\w*(?:,\s*[A-Z]\w*)*>/g
reArrowGeneric ==
    Cat(<<Grp(1, Cat(<<Word(<<"c", "o", "n", "s", "t">>), Plus(Ws), Plus(Wd), Star(Ws), Lit(":"), Star(Ws),
                       Lit("("), Star(NSet({")"})), Lit(")"), Star(Ws), Word(<<"=", ">">>)>>)),
          Star(Ws), GenericList>>)
\* /function\s+(\w+)\s*\(([^)]*)\)/g
reFunctionParams ==
    Cat(<<Word(<<"f", "u", "n", "c", "t", "i", "o", "n">>), Plus(Ws), Grp(1, Plus(Wd)), Star(Ws), Lit("("),
          Grp(2, Star(NSet({")"}))), Lit(")")>>)
\* /\(([^)]*)\)\s*=>/g
reArrowParams ==
    Cat(<<Lit("("), Grp(1, Star(NSet({")"}))), Lit(")"), Star(Ws), Word(<<"=", ">">>)>>)
\* (?:\s*:\s*[^=]+)?
OptAnnotation == Opt(Cat(<<Star(Ws), Lit(":"), Star(Ws), Plus(NSet({"="}))>>))
\* (\s*=.*)?
OptDefault == Opt(Grp(2, Cat(<<Star(Ws), Lit("="), Star(Dot)>>)))
\* /^\.\.\.(\w+)(?:\s*:\s*[^=]+)?(\s*=.*)?$/
reRestParam == Cat(<<Bos, Word(<<".", ".", ".">>), Grp(1, Plus(Wd)), OptAnnotation, OptDefault, Eos>>)
\* /^\.\.\.(\w+)(?:\s*:\s*[^=]+)?$/
reRestParamArrow == Cat(<<Bos, Word(<<".", ".", ".">>), Grp(1, Plus(Wd)), OptAnnotation, Eos>>)
\* /^(\w+)(?:\s*:\s*[^=]+)?(\s*=.*)?$/
reParam == Cat(<<Bos, Grp(1, Plus(Wd)), OptAnnotation, OptDefault, Eos>>)
\* /:\s*[^=,]+/
reAnnotationFallback == Cat(<<Lit(":"), Star(Ws), Plus(NSet({"=", ","}))>>)
\* /\)\s*:\s*[^{=>\n]+/
reReturnTypeHead ==
    Cat(<<Lit(")"), Star(Ws), Lit(":"), Star(Ws), Plus(NSet({"{", "=", ">", "\n"}))>>)
\* /\)\s*:\s*[^{=>\n]+(\s*\{|\s*=>)/g
reReturnType ==
    Cat(<<reReturnTypeHead,
          Grp(1, Alt(<<Cat(<<Star(Ws), Lit("{")>>), Cat(<<Star(Ws), Word(<<"=", ">">>)>>)>>))>>)
ConstLetVar == Grp(1, Alt(<<Word(<<"c", "o", "n", "s", "t">>), Word(<<"l", "e", "t">>), Word(<<"v", "a", "r">>)>>))
\* /(const|let|var)\s+(\w+)\s*:\s*\([^)]*\)\s*=>\s*[\s\S]*?=\s*(\([^)]*\)\s*=>)/g
reTypedArrow ==
    Cat(<<ConstLetVar, Plus(Ws), Grp(2, Plus(Wd)), Star(Ws), Lit(":"), Star(Ws),
          Lit("("), Star(NSet({")"})), Lit(")"), Star(Ws), Word(<<"=", ">">>), Star(Ws),
          StarLazy(AnyCh), Lit("="), Star(Ws),
          Grp(3, Cat(<<Lit("("), Star(NSet({")"})), Lit(")"), Star(Ws), Word(<<"=", ">">>)>>))>>)
\* /(const|let|var)\s+(\w+)\s*:\s*[^=]+(\s*=)/g
reVarAnnotation ==
    Cat(<<ConstLetVar, Plus(Ws), Grp(2, Plus(Wd)), Star(Ws), Lit(":"), Star(Ws),
          Plus(NSet({"="})), Grp(3, Cat(<<Star(Ws), Lit("=")>>))>>)
\* /\s+as\s+(const|number|string|boolean|any|unknown|void|never|readonly|readonly\s+\[[^\]]+\])/g
reAsAssertion ==
    Cat(<<Plus(Ws), Word(<<"a", "s">>), Plus(Ws),
          Grp(1, Alt(<<Word(<<"c", "o", "n", "s", "t">>), Word(<<"n", "u", "m", "b", "e", "r">>), Word(<<"s", "t", "r", "i", "n", "g">>),
                       Word(<<"b", "o", "o", "l", "e", "a", "n">>), Word(<<"a", "n", "y">>), Word(<<"u", "n", "k", "n", "o", "w", "n">>), Word(<<"v", "o", "i", "d">>),
                       Word(<<"n", "e", "v", "e", "r">>), Word(<<"r", "e", "a", "d", "o", "n", "l", "y">>),
                       Cat(<<Word(<<"r", "e", "a", "d", "o", "n", "l", "y">>), Plus(Ws), Lit("["), Plus(NSet({"]"})),
                             Lit("]")>>)>>))>>)
\* /\n\s*\n\s*\n+/g
reBlankLines == Cat(<<Lit(NL), Star(Ws), Lit(NL), Star(Ws), Plus(Lit(NL))>>)

\* the body of the map callbacks, on the trimmed parameter: restMatch and
\* paramMatch are the results of the two match calls, and withDefault tells
\* whether a rest parameter keeps its default value ($2)
CleanTrimmed(trimmed, restMatch, paramMatch, withDefault) ==
    IF StartsWith(trimmed, <<"t", "h", "i", "s", ":">>) THEN <<>>
    ELSE IF StartsWith(trimmed, <<".", ".", ".">>) /\ restMatch.ok
    THEN <<".", ".", ".">> \o Cap(trimmed, restMatch, 1)
           \o (IF withDefault THEN Cap(trimmed, restMatch, 2) ELSE <<>>)
    ELSE IF paramMatch.ok
    THEN Trim(Cap(trimmed, paramMatch, 1) \o Cap(trimmed, paramMatch, 2))
    ELSE Trim(ReplaceFirst(reAnnotationFallback, trimmed, Empty))

\* the map callback of the function-declaration step, for one parameter
CleanParam(param) ==
    CleanTrimmed(Trim(param), MatchAt(reRestParam, Trim(param), 1),
                 MatchAt(reParam, Trim(param), 1), TRUE)

\* the map callback of the arrow-function step, for one parameter
CleanArrowParam(param) ==
    CleanTrimmed(Trim(param), MatchAt(reRestParamArrow, Trim(param), 1),
                 MatchAt(reParam, Trim(param), 1), FALSE)

\* the replacement callback of the function-declaration step
FunctionParamsRepl(s, m) ==
    LET funcName == Cap(s, m, 1)
        params == Cap(s, m, 2)
        parts == Split(params, ",")
        cleanedParams ==
            JoinNonEmpty([k \in 1..Len(parts) |-> CleanParam(parts[k])], <<",", " ">>)
    IN IF IsBlank(params) THEN <<"f", "u", "n", "c", "t", "i", "o", "n", " ">> \o funcName \o <<"(", ")">>
       ELSE <<"f", "u", "n", "c", "t", "i", "o", "n", " ">> \o funcName \o <<"(">> \o cleanedParams \o <<")">>

\* the replacement callback of the arrow-function step
ArrowParamsRepl(s, m) ==
    LET params == Cap(s, m, 1)
        parts == Split(params, ",")
        cleanedParams ==
            JoinNonEmpty([k \in 1..Len(parts) |-> CleanArrowParam(parts[k])], <<",", " ">>)
    IN IF IsBlank(params) THEN <<"(", ")", " ", "=", ">">>
       ELSE <<"(">> \o cleanedParams \o <<")", " ", "=", ">">>

\* cleaned.replace(/function\s+(\w+)\s*\(([^)]*)\)/g, (match, funcName, params) => ...)
WithFunctionParams(s, ms) ==
    Pieces(s, ms, [k \in 1..Len(ms) |-> FunctionParamsRepl(s, ms[k])])
ReplaceFunctionParams(s) ==
    IF s = <<>> THEN s ELSE WithFunctionParams(s, MatchAll(reFunctionParams, s))

\* cleaned.replace(/\(([^)]*)\)\s*=>/g, (match, params) => ...)
WithArrowParams(s, ms) ==
    Pieces(s, ms, [k \in 1..Len(ms) |-> ArrowParamsRepl(s, ms[k])])
ReplaceArrowParams(s) ==
    IF s = <<>> THEN s ELSE WithArrowParams(s, MatchAll(reArrowParams, s))

\* the replacement string ')'
CloseParen == <<Text(<<")">>)>>
\* Variant of ReturnTypeRepl that leaves the match as it is.
ReturnTypeKept(s, m) == MatchText(s, m)
\* the replacement callback of the return-type step
ReturnTypeRepl(s, m) == ReplaceFirst(reReturnTypeHead, MatchText(s, m), CloseParen)
\* cleaned.replace(/\)\s*:\s*[^{=>\n]+(\s*\{|\s*=>)/g, (match) => ...)
WithReturnTypes(s, ms) ==
    Pieces(s, ms, [k \in 1..Len(ms) |-> ReturnTypeRepl(s, ms[k])])
ReplaceReturnTypes(s) ==
    IF s = <<>> THEN s ELSE WithReturnTypes(s, MatchAll(reReturnType, s))

\* '$1 $2 = $3'
TypedArrowRepl == <<Ref(1), Text(<<" ">>), Ref(2), Text(<<" ", "=", " ">>), Ref(3)>>
\* '$1 $2$3'
VarAnnotationRepl == <<Ref(1), Text(<<" ">>), Ref(2), Ref(3)>>
\* '\n\n'
TwoNewlines == <<Text(<<NL, NL>>)>>

cleanCodeForExecution(code) ==
    LET c1 == ReplaceAll(reImport, code, Empty)
        c2 == ReplaceAll(reExport, c1, Empty)
        c3 == ReplaceAll(reJsDoc, c2, Empty)
        c4 == ReplaceAll(reTypeAlias, c3, Empty)
        c5 == ReplaceAll(reInterface, c4, Empty)
        c6 == ReplaceAll(reFunctionGeneric, c5, Group1)
        c7 == ReplaceAll(reArrowGeneric, c6, Group1)
        c8 == ReplaceFunctionParams(c7)
        c9 == ReplaceArrowParams(c8)
        c10 == ReplaceReturnTypes(c9)
        c11 == ReplaceAll(reTypedArrow, c10, TypedArrowRepl)
        c12 == ReplaceAll(reVarAnnotation, c11, VarAnnotationRepl)
        c13 == ReplaceAll(reAsAssertion, c12, Empty)
        c14 == ReplaceAll(reBlankLines, c13, TwoNewlines)
    IN Trim(c14)

----------------------------------------------------------------------------
(* Values, exceptions and the fragments executeCode is run on               *)

\* text.includes(w)
Includes(s, w) == \E i \in 1..(Len(s) - Len(w) + 1) : SubSeq(s, i, i + Len(w) - 1) = w

\* A JavaScript value, as far as the formatting of a console argument looks
\* at it. text is String(value); json and pretty are JSON.stringify(value)
\* and JSON.stringify(value, null, 2), which throw when cyclic holds.
Prim(k, text) == [k |-> k, text |-> text]
Null == Prim("null", <<"n", "u", "l", "l">>)
Undefined == Prim("undefined", <<"u", "n", "d", "e", "f", "i", "n", "e", "d">>)
Num(text) == Prim("number", text)
Str(text) == Prim("string", text)
Bool(text) == Prim("boolean", text)
Arr(items, text, json) ==
    [k |-> "array", items |-> items, text |-> text, json |-> json, cyclic |-> FALSE]
Fn(name, text) == [k |-> "function", name |-> name, text |-> text]
Obj(text, json, pretty, cyclic) ==
    [k |-> "object", text |-> text, json |-> json, pretty |-> pretty, cyclic |-> cyclic]

\* A thrown value: an Error with its message, or any other value with the
\* text String(value) gives.
ErrorOf(message) == [isError |-> TRUE, text |-> message]
NonError(text) == [isError |-> FALSE, text |-> text]

\* The lines a fragment is made of. Each is a complete statement, a comment
\* or a construct that the cleaning removes.
LineKinds ==
    {"log", "info", "warn", "error", "boom", "oops", "ref", "proc", "syn",
     "import", "doc", "blank", "cmt"}
\* Lines whose effect outlasts the statement: a callback handed to setTimeout
\* that calls console.log when it runs ("defer"), one that calls the function
\* console.log was when the line ran ("save"), and a click on the run button
\* of a section, whose handler calls executeCode before click() returns.
\* "loop" is a loop that does not end, "mute" the throw of an Error without
\* a message. "ident" and "eoi" do not compile, "json" throws a SyntaxError
\* when it is run, "pfail" throws an Error that names process. "call" logs
\* add(5, 3).
OtherKinds ==
    {"defer", "save", "click", "loop", "mute", "ident", "eoi", "json", "pfail", "call"}
\* Lines of TypeScript, which the cleaning is to turn into JavaScript: "add"
\* declares add with annotated parameters and an annotated return type,
\* "sig" is a // comment that shows the syntax of a typed declaration,
\* "alias" is a type alias without a semicolon, "aliasSemi" the same with
\* one. The others are declarations whose parameter list holds a this
\* parameter ("this"), a rest parameter ("rest"), a default value ("def"),
\* an object type ("objp").
TypedKinds == {"add", "sig", "alias", "aliasSemi", "this", "rest", "def", "objp"}

LineText(k) ==
    CASE k = "log" -> <<"c", "o", "n", "s", "o", "l", "e", ".", "l", "o", "g", "(", "1", ",", " ", "'", "a",
      "'", ",", " ", "t", "r", "u", "e", ")">>
      [] k = "info" -> <<"c", "o", "n", "s", "o", "l", "e", ".", "i", "n", "f", "o", "(", "n", "u", "l", "l",
      ",", " ", "u", "n", "d", "e", "f", "i", "n", "e", "d", ")">>
      [] k = "warn" -> <<"c", "o", "n", "s", "o", "l", "e", ".", "w", "a", "r", "n", "(", "[", "1", ",", " ",
      "'", "b", "'", "]", ")">>
      [] k = "error" -> <<"c", "o", "n", "s", "o", "l", "e", ".", "e", "r", "r", "o", "r", "(", "'", "e", "'",
      ")">>
      [] k = "boom" -> <<"t", "h", "r", "o", "w", " ", "n", "e", "w", " ", "E", "r", "r", "o", "r", "(", "'",
      "b", "o", "o", "m", "'", ")">>
      [] k = "oops" -> <<"t", "h", "r", "o", "w", " ", "'", "o", "o", "p", "s", "'">>
      [] k = "ref" -> <<"f", "o", "o", "(", ")">>
      [] k = "proc" -> <<"p", "r", "o", "c", "e", "s", "s", ".", "e", "x", "i", "t", "(", "1", ")">>
      [] k = "syn" -> <<"c", "o", "n", "s", "t", " ", "=", " ", "1">>
      [] k = "import" -> <<"i", "m", "p", "o", "r", "t", " ", "x", " ", "f", "r", "o", "m", " ", "'", "y", "'">>
      [] k = "doc" -> <<"/", "*", "*", " ", "d", "o", "c", " ", "*", "/">>
      [] k = "blank" -> <<" ", " ">>
      [] k = "cmt" -> <<"/", "/", " ", "n", "o", "t", "e">>
      [] k = "defer" -> <<"s", "e", "t", "T", "i", "m", "e", "o", "u", "t", "(", "(", ")", " ", "=", ">", " ",
        "c", "o", "n", "s", "o", "l", "e", ".", "l", "o", "g", "(", "'", "l", "a", "t", "e",
        "'", ")", ")">>
      [] k = "save" -> <<"c", "o", "n", "s", "t", " ", "l", "o", "g", " ", "=", " ", "c", "o", "n", "s", "o",
        "l", "e", ".", "l", "o", "g", ";", " ", "s", "e", "t", "T", "i", "m", "e", "o", "u",
        "t", "(", "(", ")", " ", "=", ">", " ", "l", "o", "g", "(", "'", "l", "a", "t", "e",
        "'", ")", ")">>
      [] k = "loop" -> <<"w", "h", "i", "l", "e", " ", "(", "t", "r", "u", "e", ")", " ", "{", "}">>
      [] k = "mute" -> <<"t", "h", "r", "o", "w", " ", "n", "e", "w", " ", "E", "r", "r", "o", "r", "(", ")">>
      [] k = "ident" -> <<"l", "e", "t", " ", "a", " ", "p", "r", "o", "c", "e", "s", "s">>
      [] k = "eoi" -> <<"i", "f", " ", "(", "t", "r", "u", "e", ")", " ", "{">>
      [] k = "json" -> <<"J", "S", "O", "N", ".", "p", "a", "r", "s", "e", "(", "'", "}", "'", ")">>
      [] k = "pfail" -> <<"t", "h", "r", "o", "w", " ", "n", "e", "w", " ", "E", "r", "r", "o", "r", "(", "'",
        "p", "r", "o", "c", "e", "s", "s", " ", "f", "a", "i", "l", "e", "d", "'", ")">>
      [] k = "add" -> <<"f", "u", "n", "c", "t", "i", "o", "n", " ", "a", "d", "d", "(", "a", ":", " ",
          "n", "u", "m", "b", "e", "r", ",", " ", "b", ":", " ", "n", "u", "m", "b", "e",
          "r", ")", ":", " ", "n", "u", "m", "b", "e", "r", " ", "{", " ", "r", "e", "t",
          "u", "r", "n", " ", "a", " ", "+", " ", "b", " ", "}">>
      [] k = "sig" -> <<"/", "/", " ", "S", "y", "n", "t", "a", "x", "e", ":", " ", "f", "u", "n", "c",
          "t", "i", "o", "n", " ", "f", "(", "p", ")", ":", " ", "T", " ", "{", " ", ".",
          ".", ".", " ", "}">>
      [] k = "alias" -> <<"t", "y", "p", "e", " ", "A", " ", "=", " ", "s", "t", "r", "i", "n", "g">>
      [] k = "aliasSemi" -> <<"t", "y", "p", "e", " ", "A", " ", "=", " ", "s", "t", "r", "i", "n", "g", ";">>
      [] k = "this" -> <<"f", "u", "n", "c", "t", "i", "o", "n", " ", "i", "n", "c", "(", "t", "h", "i",
          "s", ":", " ", "C", ",", " ", "s", "t", "e", "p", " ", "=", " ", "1", ")", ":",
          " ", "v", "o", "i", "d", " ", "{", "}">>
      [] k = "rest" -> <<"f", "u", "n", "c", "t", "i", "o", "n", " ", "m", "u", "l", "(", ".", ".", ".",
          "n", "s", ":", " ", "n", "u", "m", "b", "e", "r", "[", "]", ")", ":", " ", "v",
          "o", "i", "d", " ", "{", "}">>
      [] k = "def" -> <<"f", "u", "n", "c", "t", "i", "o", "n", " ", "p", "o", "w", "(", "x", ":", " ",
          "n", "u", "m", "b", "e", "r", ",", " ", "n", ":", " ", "n", "u", "m", "b", "e",
          "r", " ", "=", " ", "2", ")", " ", "{", "}">>
      [] k = "objp" -> <<"f", "u", "n", "c", "t", "i", "o", "n", " ", "l", "e", "n", "(", "p", ":", " ",
          "{", "x", ":", " ", "n", "u", "m", "b", "e", "r", ",", " ", "y", ":", " ", "n",
          "u", "m", "b", "e", "r", "}", ",", " ", "q", ":", " ", "n", "u", "m", "b", "e",
          "r", ")", " ", "{", "}">>
      [] k = "call" -> <<"c", "o", "n", "s", "o", "l", "e", ".", "l", "o", "g", "(", "a", "d", "d", "(",
          "5", ",", " ", "3", ")", ")">>
      [] k = "click" -> <<"d", "o", "c", "u", "m", "e", "n", "t", ".", "q", "u", "e", "r", "y", "S", "e", "l",
        "e", "c", "t", "o", "r", "(", "'", ".", "r", "u", "n", "-", "b", "t", "n", "'", ")",
        ".", "c", "l", "i", "c", "k", "(", ")">>

\* What the JavaScript engine does with one line: op is "nop", "console"
\* (a call of console[chan] with args), "throw" (of exc, when the line is
\* run) or "syntax" (exc is thrown when the text is compiled).
Nop == [op |-> "nop", chan |-> "log", args |-> <<>>, exc |-> ErrorOf(<<>>)]
ConsoleStmt(chan, args) == [op |-> "console", chan |-> chan, args |-> args, exc |-> ErrorOf(<<>>)]
ThrowStmt(exc) == [op |-> "throw", chan |-> "log", args |-> <<>>, exc |-> exc]
SyntaxStmt(message) == [op |-> "syntax", chan |-> "log", args |-> <<>>, exc |-> ErrorOf(message)]
\* setTimeout(callback): the callback calls console.log('late'), through the
\* console of the time it runs or through the function saved beforehand
TimerStmt(saved) ==
    [op |-> "timer", chan |-> "log", args |-> <<Str(<<"l", "a", "t", "e">>)>>, saved |-> saved]
ClickStmt == [op |-> "click"]
LoopStmt == [op |-> "loop"]
\* function name(params) { body }: params are the names of the parameters,
\* body is the text between the braces
DeclStmt(name, params, body) ==
    [op |-> "decl", name |-> name, params |-> params, body |-> body]
\* console[chan](fn(args)): args are numbers
CallStmt(chan, fn, args) == [op |-> "call", chan |-> chan, fn |-> fn, args |-> args]

StmtOfKind(k) ==
    CASE k = "log" -> ConsoleStmt("log", <<Num(<<"1">>), Str(<<"a">>), Bool(<<"t", "r", "u", "e">>)>>)
      [] k = "info" -> ConsoleStmt("info", <<Null, Undefined>>)
      [] k = "warn" -> ConsoleStmt("warn", <<Arr(<<Num(<<"1">>), Str(<<"b">>)>>, <<"1", ",", "b">>,
                                               <<"[", "1", ",", "\"", "b", "\"", "]">>)>>)
      [] k = "error" -> ConsoleStmt("error", <<Str(<<"e">>)>>)
      [] k = "boom" -> ThrowStmt(ErrorOf(<<"b", "o", "o", "m">>))
      [] k = "oops" -> ThrowStmt(NonError(<<"o", "o", "p", "s">>))
      [] k = "ref" -> ThrowStmt(ErrorOf(<<"f", "o", "o", " ", "i", "s", " ", "n", "o", "t", " ", "d", "e", "f", "i", "n", "e",
      "d">>))
      [] k = "proc" -> ThrowStmt(ErrorOf(<<"p", "r", "o", "c", "e", "s", "s", " ", "i", "s", " ", "n", "o", "t", " ", "d", "e",
      "f", "i", "n", "e", "d">>))
      [] k = "syn" -> SyntaxStmt(<<"U", "n", "e", "x", "p", "e", "c", "t", "e", "d", " ", "t", "o", "k", "e", "n", " ",
      "'", "=", "'">>)
      [] k = "import" -> SyntaxStmt(<<"C", "a", "n", "n", "o", "t", " ", "u", "s", "e", " ", "i", "m", "p", "o", "r", "t",
      " ", "s", "t", "a", "t", "e", "m", "e", "n", "t", " ", "o", "u", "t", "s", "i", "d",
      "e", " ", "a", " ", "m", "o", "d", "u", "l", "e">>)
      [] k = "doc" -> Nop
      [] k = "blank" -> Nop
      [] k = "cmt" -> Nop
      [] k = "defer" -> TimerStmt(FALSE)
      [] k = "save" -> TimerStmt(TRUE)
      [] k = "click" -> ClickStmt
      [] k = "loop" -> LoopStmt
      [] k = "mute" -> ThrowStmt(ErrorOf(<<>>))
      [] k = "ident" -> SyntaxStmt(<<"U", "n", "e", "x", "p", "e", "c", "t", "e", "d", " ", "i", "d", "e", "n", "t", "i",
        "f", "i", "e", "r", " ", "'", "p", "r", "o", "c", "e", "s", "s", "'">>)
      [] k = "eoi" -> SyntaxStmt(<<"U", "n", "e", "x", "p", "e", "c", "t", "e", "d", " ", "e", "n", "d", " ", "o", "f",
        " ", "i", "n", "p", "u", "t">>)
      [] k = "json" -> ThrowStmt(ErrorOf(<<"U", "n", "e", "x", "p", "e", "c", "t", "e", "d", " ", "t", "o", "k", "e", "n", " ",
        "}", " ", "i", "n", " ", "J", "S", "O", "N", " ", "a", "t", " ", "p", "o", "s", "i",
        "t", "i", "o", "n", " ", "0">>))
      [] k = "pfail" -> ThrowStmt(ErrorOf(<<"p", "r", "o", "c", "e", "s", "s", " ", "f", "a", "i", "l", "e", "d">>))
      [] k = "call" -> CallStmt("log", <<"a", "d", "d">>, <<5, 3>>)

\* A function declaration on one line, as the engine reads it:
\* function name(params) { body }
reDeclaration ==
    Cat(<<Bos, Word(<<"f", "u", "n", "c", "t", "i", "o", "n">>), Plus(Ws), Grp(1, Plus(Wd)), Star(Ws), Lit("("),
          Grp(2, Star(NSet({")"}))), Lit(")"), Star(Ws), Lit("{"), Grp(3, Star(NSet({"}"}))),
          Lit("}"), Eos>>)
\* a parameter: a name, a rest parameter, a name with a default value
reIdentifier == Cat(<<Bos, Grp(1, Plus(Wd)), Eos>>)
reRestName == Cat(<<Bos, Word(<<".", ".", ".">>), Grp(1, Plus(Wd)), Eos>>)
reDefaulted ==
    Cat(<<Bos, Grp(1, Plus(Wd)), Star(Ws), Lit("="), Star(Ws), Plus(Set(Digits)), Eos>>)
\* a body that returns the sum of two names
reReturnSum ==
    Cat(<<Bos, Word(<<"r", "e", "t", "u", "r", "n">>), Plus(Ws), Grp(1, Plus(Wd)), Star(Ws), Lit("+"), Star(Ws),
          Grp(2, Plus(Wd)), Eos>>)

\* the parameters of a declaration, each trimmed
FormalsOf(params) ==
    IF IsBlank(params) THEN <<>>
    ELSE [k \in 1..Len(Split(params, ",")) |-> Trim(Split(params, ",")[k])]
IsFormal(f) ==
    \/ MatchAt(reIdentifier, f, 1).ok
    \/ MatchAt(reRestName, f, 1).ok
    \/ MatchAt(reDefaulted, f, 1).ok
\* the name a parameter binds
FormalName(f) ==
    IF MatchAt(reRestName, f, 1).ok THEN Cap(f, MatchAt(reRestName, f, 1), 1)
    ELSE IF MatchAt(reDefaulted, f, 1).ok THEN Cap(f, MatchAt(reDefaulted, f, 1), 1)
    ELSE f
\* the bodies the engine is given here: nothing, or the return of a sum
IsBody(body) == body = <<>> \/ MatchAt(reReturnSum, body, 1).ok

\* the declaration a line is, l being the line and m its match
DeclOf(l, m, formals) ==
    IF (\A k \in 1..Len(formals) : IsFormal(formals[k])) /\ IsBody(Trim(Cap(l, m, 3)))
    THEN DeclStmt(Cap(l, m, 1), [k \in 1..Len(formals) |-> FormalName(formals[k])],
                  Trim(Cap(l, m, 3)))
    ELSE SyntaxStmt(<<"U", "n", "e", "x", "p", "e", "c", "t", "e", "d", " ", "t", "o", "k", "e", "n",
          " ", "'", ":", "'">>)

\* the declaration a line is, m being its match against reDeclaration; a
\* line that is no declaration does not parse
Declared(l, m) ==
    IF m.ok THEN DeclOf(l, m, FormalsOf(Cap(l, m, 2)))
    ELSE SyntaxStmt(<<"I", "n", "v", "a", "l", "i", "d", " ", "o", "r", " ", "u", "n", "e", "x", "p",
          "e", "c", "t", "e", "d", " ", "t", "o", "k", "e", "n">>)

\* The statement a line of the cleaned text is: one of the lines above, a //
\* comment, a function declaration. A text that is none of these does not
\* parse.
Recognised(l, known) ==
    IF known # {} THEN StmtOfKind(CHOOSE k \in known : TRUE)
    ELSE IF StartsWith(l, <<"/", "/">>) THEN Nop
    ELSE Declared(l, MatchAt(reDeclaration, l, 1))
KnownAs(l) == {k \in LineKinds \cup OtherKinds : Trim(LineText(k)) = l}
StmtOfLine(line) == Recognised(Trim(line), KnownAs(Trim(line)))

\* new Function(cleanCode): the statements of the body, or the SyntaxError
\* the compilation throws
Parsed(lines) == [i \in 1..Len(lines) |-> StmtOfLine(lines[i])]

\* the decimal numeral of a number below 100
Numeral(n) ==
    LET d(i) == CHOOSE c \in Digits : DigitVal(c) = i
    IN IF n < 10 THEN <<d(n)>> ELSE <<d(n \div 10), d(n % 10)>>
ReferenceErrorOf(name) == ErrorOf(name \o <<" ", "i", "s", " ", "n", "o", "t", " ", "d", "e", "f", "i", "n", "e", "d">>)

\* fn(args) where fn is the declaration d: the value returned, or the
\* ReferenceError thrown. A name of the body is the parameter of that name,
\* and is not defined when there is none.
Applied(d, args) ==
    LET m == MatchAt(reReturnSum, d.body, 1)
        bound(name) == {k \in 1..Len(d.params) : d.params[k] = name}
        value(name) == LET k == CHOOSE j \in bound(name) : \A i \in bound(name) : i <= j
                       IN IF k <= Len(args) THEN args[k] ELSE -1
        x == value(Cap(d.body, m, 1))
        y == value(Cap(d.body, m, 2))
    IN IF d.body = <<>> THEN [ok |-> TRUE, value |-> Undefined]
       ELSE IF bound(Cap(d.body, m, 1)) = {}
       THEN [ok |-> FALSE, exc |-> ReferenceErrorOf(Cap(d.body, m, 1))]
       ELSE IF bound(Cap(d.body, m, 2)) = {}
       THEN [ok |-> FALSE, exc |-> ReferenceErrorOf(Cap(d.body, m, 2))]
       ELSE IF x < 0 \/ y < 0 THEN [ok |-> TRUE, value |-> Num(<<"N", "a", "N">>)]
       ELSE [ok |-> TRUE, value |-> Num(Numeral(x + y))]

\* One statement of a program whose statements are stmts: function
\* declarations are hoisted, so a call finds the last declaration of the
\* name wherever it stands, and throws a ReferenceError when there is none.
Linked(st, stmts) ==
    IF st.op = "decl" THEN Nop
    ELSE IF st.op # "call" THEN st
    ELSE LET ds == {j \in 1..Len(stmts) : stmts[j].op = "decl" /\ stmts[j].name = st.fn}
         IN IF ds = {} THEN ThrowStmt(ReferenceErrorOf(st.fn))
            ELSE LET r == Applied(stmts[CHOOSE j \in ds : \A i \in ds : i <= j], st.args)
                 IN IF r.ok THEN ConsoleStmt(st.chan, <<r.value>>) ELSE ThrowStmt(r.exc)
Program(stmts) == [i \in 1..Len(stmts) |-> Linked(stmts[i], stmts)]

Statements(cleanCode) == Program(Parsed(Split(cleanCode, NL)))

SyntaxErrors(stmts) == {i \in 1..Len(stmts) : stmts[i].op = "syntax"}
Executable(stmts) == SelectSeq(stmts, LAMBDA st : st.op # "nop")

\* code: the lines joined by newlines
RECURSIVE JoinLines(_)
JoinLines(ks) ==
    IF ks = <<>> THEN <<>>
    ELSE IF Len(ks) = 1 THEN LineText(ks[1])
    ELSE LineText(ks[1]) \o <<NL>> \o JoinLines(Tail(ks))

MaxLines == 2
Fragments == UNION {[1..n -> LineKinds] : n \in 0..MaxLines}

----------------------------------------------------------------------------
(* captureLog: the formatting of the arguments of a console call           *)

MaxFormatted == 500

\* formatValue(value)
formatValue(value) ==
    CASE value.k = "null" -> <<"n", "u", "l", "l">>
      [] value.k = "undefined" -> <<"u", "n", "d", "e", "f", "i", "n", "e", "d">>
      [] value.k = "string" -> <<"\"">> \o value.text \o <<"\"">>
      [] value.k \in {"object", "array"} -> IF value.cyclic THEN value.text ELSE value.json
      [] OTHER -> value.text

RECURSIVE JoinAll(_, _)
JoinAll(parts, sep) ==
    IF parts = <<>> THEN <<>>
    ELSE IF Len(parts) = 1 THEN parts[1]
    ELSE parts[1] \o sep \o JoinAll(Tail(parts), sep)

\* Variant of FormatArg that formats an argument the way the items of an
\* array are formatted (strings in quotes).
FormatArgAsItem(arg) == formatValue(arg)

\* the map callback of captureLog, for one argument
FormatArg(arg) ==
    CASE arg.k = "null" -> <<"n", "u", "l", "l">>
      [] arg.k = "undefined" -> <<"u", "n", "d", "e", "f", "i", "n", "e", "d">>
      [] arg.k = "array" ->
            <<"[">> \o JoinAll([i \in 1..Len(arg.items) |-> formatValue(arg.items[i])],
                              <<",", " ">>) \o <<"]">>
      [] arg.k = "object" ->
            IF arg.cyclic THEN arg.text
            ELSE IF Len(arg.pretty) > MaxFormatted
            THEN SubSeq(arg.pretty, 1, MaxFormatted) \o <<".", ".", ".">>
            ELSE arg.pretty
      [] arg.k = "function" ->
            <<"[", "F", "u", "n", "c", "t", "i", "o", "n", ":", " ">> \o (IF arg.name # <<>> THEN arg.name ELSE <<"a", "n", "o", "n", "y", "m", "o", "u", "s">>) \o <<"]">>
      [] OTHER -> arg.text

\* args.map(...).join(' ')
FormatMessage(args) == JoinAll([i \in 1..Len(args) |-> FormatArg(args[i])], <<" ">>)

----------------------------------------------------------------------------
(* The source texts the parser is run on: up to MaxBlocks blocks, each a    *)
(* header, a malformed header or some body text.                            *)

MaxBlocks == 4

SepLine(n) == <<"/", "/", " ">> \o RepeatCh("=", n)
SectionLine(num, title) ==
    <<"/", "/", " ", "S", "E", "C", "T", "I", "O", "N", " ">> \o num \o <<":", " ">> \o title
HeaderText(n, num, title) ==
    SepLine(n) \o <<NL>> \o SectionLine(num, title) \o <<NL>> \o SepLine(SepMin)

BlockKinds == {"h1", "h2", "short", "code", "blank"}
BlockText(b) ==
    CASE b = "h1" -> HeaderText(SepMin, <<"1">>, <<"A">>) \o <<NL>>
      [] b = "h2" -> HeaderText(SepMin + 1, <<"1", "2">>, <<"B", " ", "c", " ">>) \o <<NL>>
      [] b = "short" -> HeaderText(SepMin - 1, <<"3">>, <<"C">>) \o <<NL>>
      [] b = "code" -> <<" ", "x", ";", NL>>
      [] b = "h0" -> HeaderText(SepMin, <<"4">>, <<" ">>) \o <<NL>>
      [] b = "blank" -> <<" ", NL>>

\* texts with headers whose title is made of blanks ("h0")
TitleKinds == {"h0", "h1", "code", "blank"}
TitleSeqs ==
    {<<>>} \cup {<<a>> : a \in TitleKinds} \cup {<<a, b>> : a \in TitleKinds, b \in TitleKinds}
      \cup {<<a, b, c>> : a \in TitleKinds, b \in TitleKinds, c \in TitleKinds}
BlockSeqs == UNION {[1..n -> BlockKinds] : n \in 0..MaxBlocks}
TextOf(bs) == Flatten([i \in 1..Len(bs) |-> BlockText(bs[i])])

----------------------------------------------------------------------------
(* executeCode *)

Channels == {"log", "info", "warn", "error"}

\* A function installed on a console channel: the native one (call = 0), or
\* the closure captureLog(type) of the call of executeCode numbered call.
NativeConsole == [t \in Channels |-> [call |-> 0, type |-> t]]
\* console.log = captureLog('log') ... console.error = captureLog('error')
CaptureConsole(id) == [t \in Channels |-> [call |-> id, type |-> t]]

EmptyMsg ==
    <<"L", "e", " ", "c", "o", "d", "e", " ", "e", "s", "t", " ", "v", "i", "d", "e", " ",
      "a", "p", "r", "è", "s", " ", "n", "e", "t", "t", "o", "y", "a", "g", "e", ".", " ",
      "V", "é", "r", "i", "f", "i", "e", "z", " ", "q", "u", "e", " ", "l", "e", " ", "f",
      "i", "c", "h", "i", "e", "r", " ", "c", "o", "n", "t", "i", "e", "n", "t", " ", "d",
      "u", " ", "c", "o", "d", "e", " ", "e", "x", "é", "c", "u", "t", "a", "b", "l", "e",
      ".">>
SyntaxPrefix == <<"E", "r", "r", "e", "u", "r", " ", "d", "e", " ", "s", "y", "n", "t", "a", "x", "e",
      ":", " ">>
SyntaxNote ==
    <<"\n", "\n", "N", "o", "t", "e", ":", " ", "C", "e", "r", "t", "a", "i", "n", "e", "s",
      " ", "s", "y", "n", "t", "a", "x", "e", "s", " ", "T", "y", "p", "e", "S", "c", "r",
      "i", "p", "t", " ", "a", "v", "a", "n", "c", "é", "e", "s", " ", "p", "e", "u", "v",
      "e", "n", "t", " ", "n", "e", " ", "p", "a", "s", " ", "ê", "t", "r", "e", " ", "s",
      "u", "p", "p", "o", "r", "t", "é", "e", "s", ".", " ", "V", "é", "r", "i", "f", "i",
      "e", "z", " ", "q", "u", "e", " ", "l", "e", " ", "c", "o", "d", "e", " ", "e", "s",
      "t", " ", "d", "u", " ", "J", "a", "v", "a", "S", "c", "r", "i", "p", "t", " ", "v",
      "a", "l", "i", "d", "e", ".">>
RuntimePrefix == <<"E", "r", "r", "e", "u", "r", " ", "d", "'", "e", "x", "é", "c", "u", "t", "i", "o",
      "n", ":", " ">>
RuntimeNote ==
    <<"\n", "\n", "N", "o", "t", "e", ":", " ", "V", "é", "r", "i", "f", "i", "e", "z", " ",
      "q", "u", "e", " ", "t", "o", "u", "t", "e", "s", " ", "l", "e", "s", " ", "v", "a",
      "r", "i", "a", "b", "l", "e", "s", " ", "e", "t", " ", "f", "o", "n", "c", "t", "i",
      "o", "n", "s", " ", "s", "o", "n", "t", " ", "b", "i", "e", "n", " ", "d", "é", "f",
      "i", "n", "i", "e", "s", " ", "a", "v", "a", "n", "t", " ", "d", "'", "ê", "t", "r",
      "e", " ", "u", "t", "i", "l", "i", "s", "é", "e", "s", ".">>
ProcessNote ==
    <<"\n", "\n", "N", "o", "t", "e", ":", " ", "\"", "p", "r", "o", "c", "e", "s", "s",
      "\"", " ", "n", "'", "e", "s", "t", " ", "p", "a", "s", " ", "d", "i", "s", "p", "o",
      "n", "i", "b", "l", "e", " ", "d", "a", "n", "s", " ", "l", "e", " ", "n", "a", "v",
      "i", "g", "a", "t", "e", "u", "r", ".", " ", "U", "t", "i", "l", "i", "s", "e", "z",
      " ", "u", "n", "i", "q", "u", "e", "m", "e", "n", "t", " ", "d", "e", "s", " ", "A",
      "P", "I", "s", " ", "d", "u", " ", "n", "a", "v", "i", "g", "a", "t", "e", "u", "r",
      ".">>

\* the number of entries that the logs arrays hold
RECURSIVE Captured(_)
Captured(L) == IF L = <<>> THEN 0 ELSE Len(Head(L)) + Captured(Tail(L))
\* A call that a native console function receives: its channel and its
\* arguments; entries is the number of entries captured when it is received.
Received(type, args, L) == [type |-> type, args |-> args, entries |-> Captured(L)]

\* Variant of Invoke whose closures push their entry, then forward.
RECURSIVE InvokePushFirst(_, _, _, _, _)
InvokePushFirst(fn, args, L, R, t) ==
    IF fn.call = 0
    THEN [logs |-> L, out |-> Append(R, Received(fn.type, args, L))]
    ELSE LET entry == [type |-> fn.type, message |-> FormatMessage(args), timestamp |-> t]
         IN InvokePushFirst(originalConsole[fn.call][fn.type], args,
                            [L EXCEPT ![fn.call] = Append(@, entry)], R, t)

\* Variant of Invoke whose closures put their entry in front of the array.
RECURSIVE InvokeUnshift(_, _, _, _, _)
InvokeUnshift(fn, args, L, R, t) ==
    IF fn.call = 0
    THEN [logs |-> L, out |-> Append(R, Received(fn.type, args, L))]
    ELSE LET fwd == InvokeUnshift(originalConsole[fn.call][fn.type], args, L, R, t)
             entry == [type |-> fn.type, message |-> FormatMessage(args), timestamp |-> t]
         IN [logs |-> [fwd.logs EXCEPT ![fn.call] = <<entry>> \o @], out |-> fwd.out]

\* The call fn(...args) of a console function at time t: what it appends to
\* the logs arrays and hands to the native console. A capturing closure first
\* forwards to the channel its call saved, then pushes its own entry.
RECURSIVE Invoke(_, _, _, _, _)
Invoke(fn, args, L, R, t) ==
    IF fn.call = 0
    THEN [logs |-> L, out |-> Append(R, Received(fn.type, args, L))]
    ELSE LET fwd == Invoke(originalConsole[fn.call][fn.type], args, L, R, t)
             entry == [type |-> fn.type, message |-> FormatMessage(args), timestamp |-> t]
         IN [logs |-> [fwd.logs EXCEPT ![fn.call] = Append(@, entry)], out |-> fwd.out]

\* the substrings the catch blocks look for in a message
UnexpectedToken == <<"U", "n", "e", "x", "p", "e", "c", "t", "e", "d", " ", "t", "o", "k", "e", "n">>
UnexpectedIdentifier == <<"U", "n", "e", "x", "p", "e", "c", "t", "e", "d", " ", "i", "d", "e", "n", "t", "i",
      "f", "i", "e", "r">>
UnexpectedEndOfInput == <<"U", "n", "e", "x", "p", "e", "c", "t", "e", "d", " ", "e", "n", "d", " ", "o", "f",
      " ", "i", "n", "p", "u", "t">>
IsNotDefined == <<"i", "s", " ", "n", "o", "t", " ", "d", "e", "f", "i", "n", "e", "d">>
CannotAccess == <<"C", "a", "n", "n", "o", "t", " ", "a", "c", "c", "e", "s", "s">>
IsNotAFunction == <<"i", "s", " ", "n", "o", "t", " ", "a", " ", "f", "u", "n", "c", "t", "i", "o", "n">>
ProcessWord == <<"p", "r", "o", "c", "e", "s", "s">>

\* Variant of Rethrown that wraps every failure as a runtime error.
RethrownWrapped(execError) == ErrorOf(RuntimePrefix \o execError.text \o RuntimeNote)

\* Variant of Rethrown that puts nothing in front of the message.
RethrownUnprefixed(execError) ==
    IF \/ Includes(execError.text, UnexpectedToken)
       \/ Includes(execError.text, UnexpectedIdentifier)
       \/ Includes(execError.text, UnexpectedEndOfInput)
    THEN ErrorOf(execError.text \o SyntaxNote)
    ELSE IF \/ Includes(execError.text, IsNotDefined)
            \/ Includes(execError.text, CannotAccess)
            \/ Includes(execError.text, IsNotAFunction)
    THEN ErrorOf(execError.text \o RuntimeNote)
    ELSE execError

\* the inner catch: the value it throws on to the outer catch
Rethrown(execError) ==
    LET errorMessage == execError.text
    IN IF \/ Includes(errorMessage, UnexpectedToken)
          \/ Includes(errorMessage, UnexpectedIdentifier)
          \/ Includes(errorMessage, UnexpectedEndOfInput)
       THEN ErrorOf(SyntaxPrefix \o errorMessage \o SyntaxNote)
       ELSE IF \/ Includes(errorMessage, IsNotDefined)
               \/ Includes(errorMessage, CannotAccess)
               \/ Includes(errorMessage, IsNotAFunction)
       THEN ErrorOf(RuntimePrefix \o errorMessage \o RuntimeNote)
       ELSE execError

\* Variant of Catches that only takes the instances of Error.
CatchesErrors(e) == e.isError

\* catch (e): a catch clause without a guard takes every thrown value
Catches(e) == TRUE

\* Variant of FinalError that looks for the word at the start of the message.
FinalErrorAtStart(e) == IF StartsWith(e.text, ProcessWord) THEN e.text \o ProcessNote ELSE e.text

\* the outer catch: error, with the note on "process"
FinalError(e) == IF Includes(e.text, ProcessWord) THEN e.text \o ProcessNote ELSE e.text

\* Variant of ErrorEntry that pushes the message on the log channel.
ErrorEntryAsLog(error, t) == [type |-> "log", message |-> error, timestamp |-> t]

\* the entry the outer catch pushes
ErrorEntry(error, t) == [type |-> "error", message |-> error, timestamp |-> t]

\* Variant of Restored that restores the console on the successful path only.
RestoredOnSuccess(frame) ==
    IF frame.error = <<>> THEN originalConsole[frame.id] ELSE console

\* Variant of Restored that installs the native functions, whatever the
\* call had saved.
RestoredNative(frame) == NativeConsole

\* the finally block: the channels it leaves installed
Restored(frame) == originalConsole[frame.id]

Top == stack[Len(stack)]
SetTop(f) == [stack EXCEPT ![Len(stack)] = f]
At(pc) == stack # <<>> /\ Top.pc = pc

\* Variant of FreshLogs that goes on with the array of the call before.
CarriedLogs(L) == IF L = <<>> THEN <<>> ELSE L[Len(L)]

\* const logs = []: line 264
FreshLogs(L) == <<>>

\* Variant of SavedConsole that keeps the native functions, whatever is
\* installed when the call starts.
SavedNative(installed) == NativeConsole

\* const originalConsole = { log: console.log, ... }: lines 265-270
SavedConsole(installed) == installed

\* the activation of executeCode(code) as call id
Activation(f, id) ==
    [id |-> id, code |-> JoinLines(f), pc |-> "clean", cleanCode |-> <<>>, prog |-> <<>>,
     ip |-> 1, exc |-> <<>>, error |-> <<>>]

\* lines 264-310: the logs array, the saved channels, the substitution
Enter(f, outer) ==
    /\ logs' = Append(logs, FreshLogs(logs))
    /\ originalConsole' = Append(originalConsole, SavedConsole(console))
    /\ console' = CaptureConsole(Len(logs) + 1)
    /\ calls' = Append(calls, [frag |-> f, outer |-> outer, result |-> <<>>])

\* the host calls executeCode(code): lines 264-312
Call ==
    /\ hostpc = "idle"
    /\ \E f \in Fragments :
         /\ frag' = f
         /\ stack' = Append(stack, Activation(f, Len(logs) + 1))
         /\ Enter(f, 0)
    /\ hostpc' = "running"
    /\ UNCHANGED <<result, hostExc, realOut, now, compiled, hostLogs, timers>>
    /\ UNCHANGED <<parseVars, region, load, strip, page>>

\* the test for an empty text: lines 319-323
Cleaned(frame, cleanCode) ==
    IF Trim(cleanCode) = <<>>
    THEN [frame EXCEPT !.cleanCode = cleanCode, !.exc = <<ErrorOf(EmptyMsg)>>, !.pc = "catch"]
    ELSE [frame EXCEPT !.cleanCode = cleanCode, !.pc = "compile"]

\* const cleanCode = cleanCodeForExecution(code): lines 316-323
Clean ==
    /\ At("clean")
    /\ stack' = SetTop(Cleaned(Top, cleanCodeForExecution(Top.code)))
    /\ UNCHANGED <<frag, hostpc, console, logs, originalConsole, result, hostExc, realOut,
                   now, compiled, hostLogs>>
    /\ UNCHANGED <<calls, timers>>
    /\ UNCHANGED <<parseVars, region, load, strip, page>>

\* new Function(cleanCode): line 330
Compile ==
    /\ At("compile")
    /\ LET stmts == Statements(Top.cleanCode)
           bad == SyntaxErrors(stmts)
       IN stack' = SetTop(IF bad # {}
                          THEN [Top EXCEPT !.exc = <<stmts[MinOf(bad)].exc>>,
                                           !.pc = "innerCatch"]
                          ELSE [Top EXCEPT !.prog = Executable(stmts), !.ip = 1,
                                           !.pc = "run"])
    /\ compiled' = TRUE
    /\ UNCHANGED <<frag, hostpc, console, logs, originalConsole, result, hostExc, realOut,
                   now, hostLogs>>
    /\ UNCHANGED <<calls, timers>>
    /\ UNCHANGED <<parseVars, region, load, strip, page>>

\* executeInIsolatedScope(), one statement at a time: line 331
RunConsole ==
    /\ At("run") /\ Top.ip <= Len(Top.prog) /\ Top.prog[Top.ip].op = "console"
    /\ LET st == Top.prog[Top.ip]
           r == Invoke(console[st.chan], st.args, logs, realOut, now)
       IN /\ logs' = r.logs
          /\ realOut' = r.out
    /\ stack' = SetTop([Top EXCEPT !.ip = @ + 1])
    /\ UNCHANGED <<frag, hostpc, console, originalConsole, result, hostExc, now, compiled,
                   hostLogs>>
    /\ UNCHANGED <<calls, timers>>
    /\ UNCHANGED <<parseVars, region, load, strip, page>>

RunThrow ==
    /\ At("run") /\ Top.ip <= Len(Top.prog) /\ Top.prog[Top.ip].op = "throw"
    /\ stack' = SetTop([Top EXCEPT !.exc = <<Top.prog[Top.ip].exc>>, !.pc = "innerCatch"])
    /\ UNCHANGED <<frag, hostpc, console, logs, originalConsole, result, hostExc, realOut,
                   now, compiled, hostLogs>>
    /\ UNCHANGED <<calls, timers>>
    /\ UNCHANGED <<parseVars, region, load, strip, page>>

RunFinish ==
    /\ At("run") /\ Top.ip > Len(Top.prog)
    /\ stack' = SetTop([Top EXCEPT !.pc = "finally"])
    /\ UNCHANGED <<frag, hostpc, console, logs, originalConsole, result, hostExc, realOut,
                   now, compiled, hostLogs>>
    /\ UNCHANGED <<calls, timers>>
    /\ UNCHANGED <<parseVars, region, load, strip, page>>

\* catch (execError): lines 332-359
InnerCatch ==
    /\ At("innerCatch")
    /\ stack' = SetTop([Top EXCEPT !.exc = <<Rethrown(Top.exc[1])>>, !.pc = "catch"])
    /\ UNCHANGED <<frag, hostpc, console, logs, originalConsole, result, hostExc, realOut,
                   now, compiled, hostLogs>>
    /\ UNCHANGED <<calls, timers>>
    /\ UNCHANGED <<parseVars, region, load, strip, page>>

\* catch (e): lines 360-373
OuterCatch ==
    /\ At("catch")
    /\ LET e == Top.exc[1]
           error == FinalError(e)
       IN IF Catches(e)
          THEN /\ logs' = [logs EXCEPT ![Top.id] = Append(@, ErrorEntry(error, now))]
               /\ stack' = SetTop([Top EXCEPT !.error = <<error>>, !.exc = <<>>,
                                              !.pc = "finally"])
          ELSE /\ logs' = logs
               /\ stack' = SetTop([Top EXCEPT !.pc = "finally"])
    /\ UNCHANGED <<frag, hostpc, console, originalConsole, result, hostExc, realOut, now,
                   compiled, hostLogs>>
    /\ UNCHANGED <<calls, timers>>
    /\ UNCHANGED <<parseVars, region, load, strip, page>>

\* finally: lines 374-380
Finally ==
    /\ At("finally")
    /\ console' = Restored(Top)
    /\ stack' = SetTop([Top EXCEPT !.pc = "return"])
    /\ UNCHANGED <<frag, hostpc, logs, originalConsole, result, hostExc, realOut, now,
                   compiled, hostLogs>>
    /\ UNCHANGED <<calls, timers>>
    /\ UNCHANGED <<parseVars, region, load, strip, page>>

\* the object of line 382: logs is the array itself, not a copy of it
Returns(frame) == [logs |-> frame.id, error |-> frame.error]

\* return { logs, error }: line 382, or the exception the finally block
\* leaves in flight. The result goes to the host, or to the handler that a
\* running fragment triggered.
Return ==
    /\ At("return")
    /\ stack' = SubSeq(stack, 1, Len(stack) - 1)
    /\ IF Top.exc # <<>>
       THEN hostExc' = Top.exc /\ result' = result /\ calls' = calls
       ELSE /\ hostExc' = hostExc
            /\ result' = IF Len(stack) = 1 THEN <<Returns(Top)>> ELSE result
            /\ calls' = [calls EXCEPT ![Top.id].result = <<Returns(Top)>>]
    /\ hostpc' = IF Len(stack) = 1 THEN "returned" ELSE hostpc
    /\ UNCHANGED <<frag, console, logs, originalConsole, realOut, now, compiled, hostLogs,
                   timers>>
    /\ UNCHANGED <<parseVars, region, load, strip, page>>

\* The codes of a session: the host runs several of them one after the
\* other, and a click of a running fragment runs one of them.
SessionFragments ==
    {<<"log">>, <<"warn", "boom">>, <<"defer">>, <<"save">>, <<"save", "log">>,
     <<"click">>, <<"info", "click">>, <<"click", "warn">>}

\* the host calls executeCode(code) once more, when no call is active
MaxCalls == 2
SessionCall ==
    /\ hostpc \in {"idle", "returned"}
    /\ Len(logs) < MaxCalls
    /\ \E f \in SessionFragments :
         /\ frag' = f
         /\ stack' = Append(stack, Activation(f, Len(logs) + 1))
         /\ Enter(f, 0)
    /\ hostpc' = "running"
    /\ UNCHANGED <<result, hostExc, realOut, now, compiled, hostLogs, timers>>
    /\ UNCHANGED <<parseVars, region, load, strip, page>>

\* the callback as setTimeout keeps it: the function to call is looked up in
\* console when the callback runs, or is the one the fragment saved
Callback(st) ==
    [saved |-> st.saved, fn |-> IF st.saved THEN console[st.chan] ELSE NativeConsole[st.chan],
     chan |-> st.chan, args |-> st.args]

\* executeInIsolatedScope(): a statement that hands a callback to setTimeout
RunTimer ==
    /\ At("run") /\ Top.ip <= Len(Top.prog) /\ Top.prog[Top.ip].op = "timer"
    /\ timers' = Append(timers, Callback(Top.prog[Top.ip]))
    /\ stack' = SetTop([Top EXCEPT !.ip = @ + 1])
    /\ UNCHANGED <<frag, hostpc, console, logs, originalConsole, result, hostExc, realOut,
                   now, compiled, hostLogs, calls>>
    /\ UNCHANGED <<parseVars, region, load, strip, page>>

\* executeInIsolatedScope(): a statement that clicks a run button. The click
\* handler (main.ts, lines 266-268) calls executeCode with the code of its
\* section while the call of the fragment is still active.
RunClick ==
    /\ At("run") /\ Top.ip <= Len(Top.prog) /\ Top.prog[Top.ip].op = "click"
    /\ Len(logs) < MaxCalls
    /\ \E f \in SessionFragments :
         /\ stack' = Append(SetTop([Top EXCEPT !.ip = @ + 1]),
                            Activation(f, Len(logs) + 1))
         /\ Enter(f, Top.id)
    /\ UNCHANGED <<frag, hostpc, result, hostExc, realOut, now, compiled, hostLogs, timers>>
    /\ UNCHANGED <<parseVars, region, load, strip, page>>

\* the event loop runs the oldest callback, once no code is running
Timer ==
    /\ stack = <<>>
    /\ timers # <<>>
    /\ LET cb == timers[1]
           r == Invoke(IF cb.saved THEN cb.fn ELSE console[cb.chan], cb.args, logs,
                       realOut, now)
       IN /\ logs' = r.logs
          /\ realOut' = r.out
    /\ timers' = Tail(timers)
    /\ UNCHANGED <<frag, hostpc, console, stack, originalConsole, result, hostExc, now,
                   compiled, hostLogs, calls>>
    /\ UNCHANGED <<parseVars, region, load, strip, page>>

\* executeInIsolatedScope(): while (true) {}, the test of the loop
RunLoop ==
    /\ At("run") /\ Top.ip <= Len(Top.prog) /\ Top.prog[Top.ip].op = "loop"
    /\ stack' = SetTop([Top EXCEPT !.pc = "body"])
    /\ UNCHANGED <<frag, hostpc, console, logs, originalConsole, result, hostExc, realOut,
                   now, compiled, hostLogs, calls, timers>>
    /\ UNCHANGED <<parseVars, region, load, strip, page>>

\* the end of the body of the loop: back to its test
LoopAgain ==
    /\ At("body")
    /\ stack' = SetTop([Top EXCEPT !.pc = "run"])
    /\ UNCHANGED <<frag, hostpc, console, logs, originalConsole, result, hostExc, realOut,
                   now, compiled, hostLogs, calls, timers>>
    /\ UNCHANGED <<parseVars, region, load, strip, page>>

\* the codes of the calls that are followed to their end
LiveKinds == {"log", "boom", "syn", "cmt", "loop"}
LiveFragments == UNION {[1..n -> LiveKinds] : n \in 0..MaxLines}
LiveCall ==
    /\ hostpc = "idle"
    /\ \E f \in LiveFragments :
         /\ frag' = f
         /\ stack' = Append(stack, Activation(f, Len(logs) + 1))
         /\ Enter(f, 0)
    /\ hostpc' = "running"
    /\ UNCHANGED <<result, hostExc, realOut, now, compiled, hostLogs, timers>>
    /\ UNCHANGED <<parseVars, region, load, strip, page>>

\* executeCode(code) on TypeScript: one or two lines, typed or not
TypedLines == TypedKinds \cup {"call", "log", "boom", "doc", "cmt"}
\* the lines that follow another in a fragment
Followers == {"log", "call", "cmt"}
TypedFragments ==
    {<<a>> : a \in TypedLines} \cup {<<a, b>> : a \in TypedLines, b \in Followers}
      \cup {<<"call", "add">>}
TypedCall ==
    /\ hostpc = "idle"
    /\ \E f \in TypedFragments :
         /\ frag' = f
         /\ stack' = Append(stack, Activation(f, Len(logs) + 1))
         /\ Enter(f, 0)
    /\ hostpc' = "running"
    /\ UNCHANGED <<result, hostExc, realOut, now, compiled, hostLogs, timers>>
    /\ UNCHANGED <<parseVars, region, load, strip, page>>

\* time passes while the fragment runs and while its failure is handled
MaxClock == 1
Tick ==
    /\ stack # <<>> /\ Top.pc \in {"run", "innerCatch", "catch"}
    /\ now < MaxClock
    /\ now' = now + 1
    /\ UNCHANGED <<frag, hostpc, console, stack, logs, originalConsole, result, hostExc,
                   realOut, compiled, hostLogs>>
    /\ UNCHANGED <<calls, timers>>
    /\ UNCHANGED <<parseVars, region, load, strip, page>>

\* the host itself logs, outside of executeCode
MaxHostLogs == 1
HostLog ==
    /\ hostpc \in {"idle", "returned"}
    /\ hostLogs < MaxHostLogs
    /\ LET r == Invoke(console["log"], <<Str(<<"h">>)>>, logs, realOut, now)
       IN /\ logs' = r.logs
          /\ realOut' = r.out
    /\ hostLogs' = hostLogs + 1
    /\ UNCHANGED <<frag, hostpc, console, stack, originalConsole, result, hostExc, now,
                   compiled>>
    /\ UNCHANGED <<calls, timers>>
    /\ UNCHANGED <<parseVars, region, load, strip, page>>

\* what resultsContainer shows: the placeholder, the loader, the error with
\* its text, the no-results message or the list of the entries
Placeholder == [state |-> "placeholder", text |-> <<>>, entries |-> <<>>]
Loading == [state |-> "loading", text |-> <<>>, entries |-> <<>>]

\* Is a string taken as true by if (...)? undefined and '' are not.
Truthy(optional) == optional # <<>> /\ optional[1] # <<>>

\* main.ts, lines 355-398: what is shown for a result
Shown(res, L) ==
    IF Truthy(res.error)
    THEN [state |-> "error", text |-> res.error[1], entries |-> <<>>]
    ELSE IF Len(L) = 0
    THEN [state |-> "empty", text |-> <<>>, entries |-> <<>>]
    ELSE [state |-> "logs", text |-> <<>>,
          entries |-> [i \in 1..Len(L) |-> [type |-> L[i].type, message |-> L[i].message]]]

\* the codes run from the page
UiKinds ==
    {"log", "boom", "mute", "syn", "doc", "ident", "eoi", "json", "proc", "ref", "pfail"}
UiFragments == UNION {[1..n -> UiKinds] : n \in 0..MaxLines}

\* executeSandboxCode(code, resultsContainer), main.ts lines 348-352: the
\* loader, then the call of executeCode
Execute ==
    /\ hostpc = "idle"
    /\ region' = Loading
    /\ \E f \in UiFragments :
         /\ frag' = f
         /\ stack' = Append(stack, Activation(f, Len(logs) + 1))
         /\ Enter(f, 0)
    /\ hostpc' = "running"
    /\ UNCHANGED <<result, hostExc, realOut, now, compiled, hostLogs, timers>>
    /\ UNCHANGED <<parseVars, load, strip, page>>

\* executeSandboxCode, main.ts lines 355-398: the result is shown and the
\* function returns
Render ==
    /\ hostpc = "returned"
    /\ result # <<>>
    /\ region' = Shown(result[1], logs[result[1].logs])
    /\ hostpc' = "shown"
    /\ UNCHANGED <<frag, console, stack, logs, originalConsole, result, hostExc, realOut,
                   now, compiled, hostLogs, calls, timers>>
    /\ UNCHANGED <<parseVars, load, strip, page>>

----------------------------------------------------------------------------
(* loadCodeExample *)

\* the keys of fileMap: lines 36-46
FileMapKeys ==
    {<<"i", "n", "f", "e", "r", "e", "n", "c", "e", ".", "t", "s">>,
     <<"g", "e", "n", "e", "r", "i", "c", ".", "t", "s">>,
     <<"v", "o", "i", "d", "-", "n", "e", "v", "e", "r", ".", "t", "s">>,
     <<"e", "n", "u", "m", ".", "t", "s">>,
     <<"o", "b", "j", "e", "c", "t", "-", "t", "y", "p", "e", "s", ".", "t", "s">>,
     <<"d", "i", "c", "t", "i", "o", "n", "a", "r", "y", ".", "t", "s">>,
     <<"f", "u", "n", "c", "t", "i", "o", "n", "s", ".", "t", "s">>,
     <<"u", "t", "i", "l", "i", "t", "y", "-", "t", "y", "p", "e", "s", ".", "t", "s">>,
     <<"r", "e", "a", "d", "o", "n", "l", "y", ".", "t", "s">>,
     <<"p", "i", "c", "k", "-", "o", "m", "i", "t", ".", "t", "s">>,
     <<"f", "u", "n", "c", "t", "i", "o", "n", "s", "-", "a", "d", "v", "a", "n", "c", "e",
        "d", ".", "t", "s">>}

\* what fileMap[filename] gives. fileMap is an object literal: besides its
\* own keys it answers for the properties it inherits from Object.prototype,
\* of which 'constructor' (the function Object, whose call returns an empty
\* object) and '__proto__' (Object.prototype itself, which cannot be called)
\* stand here for the others.
Constructor == <<"c", "o", "n", "s", "t", "r", "u", "c", "t", "o", "r">>
Proto == <<"_", "_", "p", "r", "o", "t", "o", "_", "_">>
Lookup(filename) ==
    IF filename \in FileMapKeys THEN "import"
    ELSE IF filename = Constructor THEN "Object"
    ELSE IF filename = Proto THEN "prototype"
    ELSE "undefined"

\* the names loadCodeExample is called with
Filenames == FileMapKeys \cup {Constructor, Proto, <<"m", "i", "s", "s", "i", "n", "g", ".", "t", "s">>, <<>>}

\* the default export of a module that was imported: its text
RawTexts == {<<"l", "e", "t", " ", "x", " ", "=", " ", "1">>, <<>>}
\* what a dynamic import is rejected with
ImportFailures ==
    {ErrorOf(<<"F", "a", "i", "l", "e", "d", " ", "t", "o", " ", "f", "e", "t", "c", "h", " ", "d",
        "y", "n", "a", "m", "i", "c", "a", "l", "l", "y", " ", "i", "m", "p", "o", "r", "t",
        "e", "d", " ", "m", "o", "d", "u", "l", "e">>),
     ErrorOf(<<"e", "r", "r", "o", "r", " ", "l", "o", "a", "d", "i", "n", "g", " ", "d", "y", "n",
        "a", "m", "i", "c", "a", "l", "l", "y", " ", "i", "m", "p", "o", "r", "t", "e", "d",
        " ", "m", "o", "d", "u", "l", "e">>),
     ErrorOf(<<"I", "m", "p", "o", "r", "t", "i", "n", "g", " ", "a", " ", "m", "o", "d", "u", "l",
        "e", " ", "s", "c", "r", "i", "p", "t", " ", "f", "a", "i", "l", "e", "d", ".">>),
     NonError(<<"o", "f", "f", "l", "i", "n", "e">>)}

NotFound(filename) ==
    ErrorOf(<<"F", "i", "c", "h", "i", "e", "r", " ">> \o filename \o <<" ", "n", "o", "n", " ", "t", "r", "o", "u", "v", "é", " ", "d", "a", "n", "s", " ",
        "l", "e", " ", "m", "a", "p", "p", "i", "n", "g">>)
NotAFunction == ErrorOf(<<"l", "o", "a", "d", "e", "r", " ", "i", "s", " ", "n", "o", "t", " ", "a", " ", "f",
        "u", "n", "c", "t", "i", "o", "n">>)

\* the text returned by the catch block: line 59
FallbackText(filename, error) ==
    <<"/", "/", " ", "E", "r", "r", "e", "u", "r", ":", " ", "I", "m", "p", "o", "s", "s",
        "i", "b", "l", "e", " ", "d", "e", " ", "c", "h", "a", "r", "g", "e", "r", " ", "l",
        "e", " ", "f", "i", "c", "h", "i", "e", "r", " ">> \o filename \o <<NL>>
        \o <<"/", "/", " ">> \o error.text

NotLoading == [pc |-> "idle", filename |-> <<>>, exc |-> <<>>, value |-> <<>>]

\* loadCodeExample(filename) up to the await: lines 33-55
LoadCall ==
    /\ load.pc = "idle"
    /\ \E filename \in Filenames :
         load' = CASE Lookup(filename) = "undefined" ->
                        [pc |-> "catch", filename |-> filename,
                         exc |-> <<NotFound(filename)>>, value |-> <<>>]
                   [] Lookup(filename) = "prototype" ->
                        [pc |-> "catch", filename |-> filename,
                         exc |-> <<NotAFunction>>, value |-> <<>>]
                   [] Lookup(filename) = "Object" ->
                        [pc |-> "resolved", filename |-> filename, exc |-> <<>>,
                         value |-> <<<<>>>>]
                   [] OTHER ->
                        [pc |-> "importing", filename |-> filename, exc |-> <<>>,
                         value |-> <<>>]
    /\ UNCHANGED <<parseVars, execVarsButLoad, strip, page>>

\* the import is done: return module.default || '' (line 56)
ImportResolves ==
    /\ load.pc = "importing"
    /\ \E text \in RawTexts : load' = [load EXCEPT !.pc = "resolved", !.value = <<text>>]
    /\ UNCHANGED <<parseVars, execVarsButLoad, strip, page>>

\* the import fails: the await throws
ImportRejects ==
    /\ load.pc = "importing"
    /\ \E e \in ImportFailures : load' = [load EXCEPT !.pc = "catch", !.exc = <<e>>]
    /\ UNCHANGED <<parseVars, execVarsButLoad, strip, page>>

\* catch (error): lines 57-60
LoadCatch ==
    /\ load.pc = "catch"
    /\ LET r == Invoke(console["error"], <<Str(load.exc[1].text)>>, logs, realOut, now)
       IN /\ logs' = r.logs
          /\ realOut' = r.out
    /\ load' = [load EXCEPT !.pc = "resolved", !.exc = <<>>,
                            !.value = <<FallbackText(load.filename, load.exc[1])>>]
    /\ UNCHANGED <<frag, hostpc, console, stack, originalConsole, result, hostExc, now,
                   compiled, hostLogs, calls, timers, region, strip, page>>
    /\ UNCHANGED parseVars

----------------------------------------------------------------------------
(* cleanCodeForExecution on JavaScript without type syntax *)

\* lines of JavaScript that hold no type syntax: a call, a function
\* declaration, an arrow function, a conditional expression whose last
\* operand is an arrow function, an object literal, a blank line, a comment
PlainKinds == {"call", "decl", "arrow", "cond", "obj", "blank", "note"}
PlainText(k) ==
    CASE k = "call" -> <<"c", "o", "n", "s", "o", "l", "e", ".", "l", "o", "g", "(", "'", "a", "'", ")">>
      [] k = "decl" -> <<"f", "u", "n", "c", "t", "i", "o", "n", " ", "f", "(", "a", ",", "b", ")", " ",
          "{", "}">>
      [] k = "arrow" -> <<"c", "o", "n", "s", "t", " ", "g", " ", "=", " ", "(", "a", ")", " ", "=", ">",
          " ", "a">>
      [] k = "cond" -> <<"x", " ", "?", " ", "f", "(", "a", ")", " ", ":", " ", "b", " ", "=", ">", " ",
          "c">>
      [] k = "obj" -> <<"c", "o", "n", "s", "t", " ", "o", " ", "=", " ", "{", " ", "a", ":", " ", "1",
          " ", "}">>
      [] k = "blank" -> <<>>
      [] k = "note" -> <<"/", "/", " ", "a", "s", " ", "i", "s">>

RECURSIVE JoinPlain(_)
JoinPlain(ks) ==
    IF ks = <<>> THEN <<>>
    ELSE IF Len(ks) = 1 THEN PlainText(ks[1])
    ELSE PlainText(ks[1]) \o <<NL>> \o JoinPlain(Tail(ks))

\* the texts cleanCodeForExecution is applied to: no line, one line, two lines
PlainSources ==
    {<<>>} \cup {<<a>> : a \in PlainKinds} \cup {<<a, b>> : a \in PlainKinds, b \in PlainKinds}

Unstripped(lines) == [pc |-> "ready", lines |-> lines, once |-> <<>>, twice |-> <<>>]

\* cleanCodeForExecution(code)
StripOnce ==
    /\ strip.pc = "ready"
    /\ strip' = [strip EXCEPT !.pc = "once",
                              !.once = cleanCodeForExecution(JoinPlain(strip.lines))]
    /\ UNCHANGED <<parseVars, execVarsButLoad, load, page>>

\* cleanCodeForExecution(cleanCodeForExecution(code))
StripTwice ==
    /\ strip.pc = "once"
    /\ strip' = [strip EXCEPT !.pc = "twice", !.twice = cleanCodeForExecution(strip.once)]
    /\ UNCHANGED <<parseVars, execVarsButLoad, load, page>>

----------------------------------------------------------------------------
(* The page: createApp and showConcept *)

\* three of the entries of concepts, in the order of the array: two that are
\* shown in one piece and the one that is shown in sections
Concepts == <<"inference", "generic", "functions-advanced">>
ConceptIds == {Concepts[i] : i \in 1..Len(Concepts)}

\* const shouldUseSections = concept.filename === 'functions-advanced.ts'
ShouldUseSections(conceptId) == conceptId = "functions-advanced"

\* The sources the concepts may have, each as the sections that
\* parseCodeIntoSections returns for it: the number the header declares (not
\* compared with the position, nor with the other numbers) and the content.
SectionCodes == {<<"log">>, <<"warn", "boom">>}
SectionNumbers == {1, 2}
Section(number, content) == [sectionNumber |-> number, content |-> content]
SectionLists ==
    {<<Section(1, c)>> : c \in SectionCodes}
      \cup {<<Section(a, c), Section(b, d)>> :
                a \in SectionNumbers, b \in SectionNumbers,
                c \in SectionCodes, d \in SectionCodes}
      \cup {<<Section(1, c), Section(1, d), Section(2, e)>> :
                c \in SectionCodes, d \in SectionCodes, e \in SectionCodes}
Sectioned == {secs \in SectionLists : Len(secs) > 1}
Sources(conceptId) ==
    IF ShouldUseSections(conceptId) THEN SectionLists
    ELSE {secs \in SectionLists : Len(secs) = 1}

\* the whole code of a source
RECURSIVE WholeCode(_)
WholeCode(secs) == IF secs = <<>> THEN <<>> ELSE secs[1].content \o WholeCode(Tail(secs))

\* Variant that makes the identifier of the concept and of the number the
\* header declares; getElementById returns the first element that has it.
ResultsContentByNumber(panels, index) ==
    CHOOSE k \in 1..Len(panels) :
        /\ panels[k].sectionNumber = panels[index].sectionNumber
        /\ \A j \in 1..(k - 1) : panels[j].sectionNumber # panels[index].sectionNumber

\* The element the results of section index are written to. The identifier
\* is made of the concept and of the position of the section in the array:
\* id="results-content-${conceptId}-${index}".
ResultsContent(panels, index) == index

\* what conceptDisplay holds: the loader (lines 194-203), the sections with
\* their run buttons and results regions (lines 215-253), or the one
\* sandbox (lines 280-310)
LoaderView(conceptId) == [concept |-> conceptId, state |-> "loading", panels |-> <<>>]
SectionsView(conceptId, secs) ==
    [concept |-> conceptId, state |-> "sections",
     panels |-> [i \in 1..Len(secs) |->
                    [sectionNumber |-> secs[i].sectionNumber, content |-> secs[i].content,
                     region |-> Placeholder]]]
SingleView(conceptId, code) ==
    [concept |-> conceptId, state |-> "single",
     panels |-> <<[sectionNumber |-> 0, content |-> code, region |-> Placeholder]>>]
\* lines 210-213: sections && sections.length > 1
LoadedView(conceptId, secs) ==
    IF ShouldUseSections(conceptId) /\ Len(secs) > 1
    THEN SectionsView(conceptId, secs)
    ELSE SingleView(conceptId, WholeCode(secs))

\* createApp, lines 178-184: the first button has been clicked
StartPage ==
    [display |-> LoaderView(Concepts[1]), active |-> Concepts[1],
     pending |-> <<Concepts[1]>>, target |-> 0]

HostIdle == hostpc \in {"idle", "shown"}

\* The click on a concept button, lines 166-175: showConcept runs up to its
\* await (the loader is shown, the load is started), then the button is
\* marked active.
MaxPending == 2
SelectConcept(conceptId) ==
    /\ HostIdle
    /\ Len(page.pending) < MaxPending
    /\ page' = [page EXCEPT !.display = LoaderView(conceptId),
                            !.active = conceptId,
                            !.pending = Append(@, conceptId),
                            !.target = 0]
    /\ UNCHANGED <<parseVars, execVarsButLoad, load, strip>>

\* the pending calls without call k
Without(pending, k) == SubSeq(pending, 1, k - 1) \o SubSeq(pending, k + 1, Len(pending))

\* showConcept after its await, lines 207-331: the load of call k has
\* completed (loadCodeExample resolves also when the import fails), the
\* display is written. The loads complete in any order.
ShowLoaded(k) ==
    /\ HostIdle
    /\ k \in 1..Len(page.pending)
    /\ \E secs \in Sources(page.pending[k]) :
         page' = [page EXCEPT !.display = LoadedView(page.pending[k], secs),
                              !.pending = Without(@, k),
                              !.target = 0]
    /\ UNCHANGED <<parseVars, execVarsButLoad, load, strip>>

\* The click on the run button of section index, lines 266-268 (and 320-322
\* for the one sandbox): executeSandboxCode(section.content, resultsContent)
\* shows the loader in its region and calls executeCode.
RunSection(index) ==
    /\ HostIdle
    /\ index \in 1..Len(page.display.panels)
    /\ Len(logs) < MaxCalls
    /\ page' = [page EXCEPT
                  !.display.panels[ResultsContent(page.display.panels, index)].region =
                      Loading,
                  !.target = ResultsContent(page.display.panels, index)]
    /\ frag' = page.display.panels[index].content
    /\ stack' = Append(stack, Activation(page.display.panels[index].content, Len(logs) + 1))
    /\ Enter(page.display.panels[index].content, 0)
    /\ hostpc' = "running"
    /\ UNCHANGED <<result, hostExc, realOut, now, compiled, hostLogs, timers>>
    /\ UNCHANGED <<parseVars, region, load, strip>>

\* executeSandboxCode, lines 355-398: the result is shown in the region the
\* handler was given
RenderSection ==
    /\ hostpc = "returned"
    /\ result # <<>>
    /\ page.target # 0
    /\ page' = [page EXCEPT
                  !.display.panels[page.target].region =
                      Shown(result[1], logs[result[1].logs]),
                  !.target = 0]
    /\ hostpc' = "shown"
    /\ UNCHANGED <<frag, console, stack, logs, originalConsole, result, hostExc, realOut,
                   now, compiled, hostLogs, calls, timers>>
    /\ UNCHANGED <<parseVars, region, load, strip>>

\* the click on the clear button of section index, lines 272-275 and 326-329
ClearSection(index) ==
    /\ HostIdle
    /\ index \in 1..Len(page.display.panels)
    /\ page' = [page EXCEPT
                  !.display.panels[ResultsContent(page.display.panels, index)].region =
                      Placeholder]
    /\ UNCHANGED <<parseVars, execVarsButLoad, load, strip>>

ExecStart ==
    /\ frag = <<>>
    /\ hostpc = "idle"
    /\ console = NativeConsole
    /\ stack = <<>>
    /\ logs = <<>>
    /\ originalConsole = <<>>
    /\ result = <<>>
    /\ hostExc = <<>>
    /\ realOut = <<>>
    /\ now = 0
    /\ compiled = FALSE
    /\ hostLogs = 0
    /\ calls = <<>>
    /\ timers = <<>>
    /\ region = Placeholder
    /\ load = NotLoading

ExecInit ==
    /\ ExecStart
    /\ strip = Unstripped(<<>>)
    /\ page = StartPage

----------------------------------------------------------------------------
(* Specifications *)

ParseStart ==
    /\ ppc = "ready"
    /\ sections = <<>>

ParseInit ==
    /\ src \in BlockSeqs
    /\ ParseStart
    /\ ExecInit

Parse ==
    /\ ppc = "ready"
    /\ sections' = parseCodeIntoSections(TextOf(src))
    /\ ppc' = "done"
    /\ UNCHANGED src
    /\ UNCHANGED execVars

ParseNext == Parse

TitleInit ==
    /\ src \in TitleSeqs
    /\ ParseStart
    /\ ExecInit
\* parseCodeIntoSections on every text of TitleSeqs
TitleSpec == TitleInit /\ [][ParseNext]_vars
\* parseCodeIntoSections on every text of BlockSeqs
ParseSpec == ParseInit /\ [][ParseNext]_vars

CleanInit ==
    /\ src = <<>>
    /\ ParseStart
    /\ ExecStart
    /\ \E lines \in PlainSources : strip = Unstripped(lines)
    /\ page = StartPage

CleanNext ==
    \/ StripOnce
    \/ StripTwice

\* cleanCodeForExecution, once and then again, on every text of PlainSources
CleanSpec == CleanInit /\ [][CleanNext]_vars

Init ==
    /\ src = <<>>
    /\ ParseStart
    /\ ExecInit

Next ==
    \/ Call
    \/ Clean
    \/ Compile
    \/ RunConsole
    \/ RunThrow
    \/ RunFinish
    \/ InnerCatch
    \/ OuterCatch
    \/ Finally
    \/ Return
    \/ Tick
    \/ HostLog

\* one call of executeCode by the host, on every fragment of Fragments
Spec == Init /\ [][Next]_vars

LiveNext ==
    \/ LiveCall
    \/ Clean
    \/ Compile
    \/ RunConsole
    \/ RunThrow
    \/ RunFinish
    \/ RunLoop
    \/ LoopAgain
    \/ InnerCatch
    \/ OuterCatch
    \/ Finally
    \/ Return

\* the steps of executeCode once the text is cleaned and compiled
Running ==
    \/ RunConsole
    \/ RunThrow
    \/ RunFinish
    \/ RunLoop
    \/ LoopAgain
    \/ InnerCatch
    \/ OuterCatch
    \/ Finally
    \/ Return

\* One call of executeCode, followed to its end. executeCode is synchronous
\* code on the one thread of the page: once called it goes on taking steps
\* as long as it has one to take. The cleaning is a fixed number of passes
\* over a finite text and the compilation one pass: the call does not stay
\* in either for ever, which is what weak fairness of Clean and of Compile
\* says, each being enabled exactly at its own place.
LiveSpec ==
    /\ Init
    /\ [][LiveNext]_vars
    /\ WF_vars(Running)
    /\ []<>(~At("clean"))
    /\ []<>(~At("compile"))

LoadNext ==
    \/ LoadCall
    \/ ImportResolves
    \/ ImportRejects
    \/ LoadCatch

\* one call of loadCodeExample, on every name of Filenames
LoadSpec == Init /\ [][LoadNext]_vars

TypedNext ==
    \/ TypedCall
    \/ Clean
    \/ Compile
    \/ RunConsole
    \/ RunThrow
    \/ RunFinish
    \/ InnerCatch
    \/ OuterCatch
    \/ Finally
    \/ Return

\* one call of executeCode on every fragment of TypedFragments
TypedSpec == Init /\ [][TypedNext]_vars

NavNext ==
    \/ \E conceptId \in ConceptIds : SelectConcept(conceptId)
    \/ \E k \in DOMAIN page.pending : ShowLoaded(k)

\* the concept buttons clicked one after the other, and the loads completing
\* in any order
NavSpec == Init /\ [][NavNext]_vars

SectionInit ==
    /\ src = <<>>
    /\ ParseStart
    /\ ExecStart
    /\ strip = Unstripped(<<>>)
    /\ \E secs \in Sectioned :
         page = [display |-> SectionsView("functions-advanced", secs),
                 active |-> "functions-advanced", pending |-> <<>>, target |-> 0]

SectionNext ==
    \/ \E index \in DOMAIN page.display.panels : RunSection(index)
    \/ Clean
    \/ Compile
    \/ RunConsole
    \/ RunThrow
    \/ RunFinish
    \/ InnerCatch
    \/ OuterCatch
    \/ Finally
    \/ Return
    \/ RenderSection
    \/ \E index \in DOMAIN page.display.panels : ClearSection(index)

\* the sectioned view of every source of Sectioned: up to MaxCalls runs of
\* sections, and the clear buttons
SectionSpec == SectionInit /\ [][SectionNext]_vars

UiNext ==
    \/ Execute
    \/ Clean
    \/ Compile
    \/ RunConsole
    \/ RunThrow
    \/ RunFinish
    \/ InnerCatch
    \/ OuterCatch
    \/ Finally
    \/ Return
    \/ Render

\* one run of executeSandboxCode, on every code of UiFragments
UiSpec == Init /\ [][UiNext]_vars

SessionNext ==
    \/ SessionCall
    \/ Clean
    \/ Compile
    \/ RunConsole
    \/ RunThrow
    \/ RunFinish
    \/ RunTimer
    \/ RunClick
    \/ InnerCatch
    \/ OuterCatch
    \/ Finally
    \/ Return
    \/ Timer

\* up to MaxCalls calls of executeCode, by the host one after the other or by
\* a running fragment, and the callbacks the fragments left behind
SessionSpec == Init /\ [][SessionNext]_vars

----------------------------------------------------------------------------
(* The parser's results, told from the blocks the text was built of        *)

IsHeader(b) == b \in {"h1", "h2"}
HeaderAt(bs) == {i \in 1..Len(bs) : IsHeader(bs[i])}
\* the header blocks, in the order of the text
HeaderSeq(bs) == SelectSeq([i \in 1..Len(bs) |-> i], LAMBDA i : IsHeader(bs[i]))
\* the blocks between the header at i and the next header or the end
BodyOf(bs, i) ==
    LET later == {j \in HeaderAt(bs) : j > i}
    IN SubSeq(bs, i + 1, (IF later = {} THEN Len(bs) + 1 ELSE MinOf(later)) - 1)
BlankBody(body) == \A j \in 1..Len(body) : body[j] = "blank"
\* a body without the blank blocks around it
Core(body) ==
    LET full == {j \in 1..Len(body) : body[j] # "blank"}
    IN SubSeq(body, MinOf(full), MaxOf(full))
\* The text of a body that is not blank, without the white space around it:
\* every block ends with a newline, and a "code" block starts with a space.
BodyContent(body) ==
    SubSeq(TextOf(Core(body)), IF Core(body)[1] = "code" THEN 2 ELSE 1,
           Len(TextOf(Core(body))) - 1)
\* the section expected of the header block at i
ExpectedSection(bs, i) ==
    IF bs[i] = "h1"
    THEN [title |-> <<"A">>, content |-> BodyContent(BodyOf(bs, i)), sectionNumber |-> 1]
    ELSE [title |-> <<"B", " ", "c">>, content |-> BodyContent(BodyOf(bs, i)),
          sectionNumber |-> 12]
\* the second line of the two well-formed headers
HeaderLines ==
    {SectionLine(<<"1">>, <<"A">>), SectionLine(<<"1", "2">>, <<"B", " ", "c", " ">>)}

\* C4: a text without any section header (the empty text included) gives
\* exactly one section, titled 'Code complet', numbered 1, whose content is the
\* text itself, untrimmed.
C4_FallbackVerbatim ==
    (ppc = "done" /\ HeaderAt(src) = {}) =>
        sections = <<[title |-> <<"C", "o", "d", "e", " ", "c", "o", "m", "p", "l", "e", "t">>,
                      content |-> TextOf(src),
                      sectionNumber |-> 1]>>
\* a text of a malformed header and white space, which trimming would shorten
C4_Witness ==
    /\ ppc = "done"
    /\ src = <<"blank", "short", "blank">>
    /\ Len(sections) = 1
    /\ sections[1].content[1] = " "

\* C5: N >= 1 headers, each followed by a body that is not blank, give exactly
\* N sections in the order of the text; section i has the number and the
\* title of header i, and its content is the text between header i and the
\* next header (or the end) without the white space around it, so that it
\* holds no line of a header.
C5_SectionPerHeader ==
    (/\ ppc = "done"
     /\ HeaderAt(src) # {}
     /\ \A i \in HeaderAt(src) : ~BlankBody(BodyOf(src, i))) =>
        /\ sections = [n \in 1..Len(HeaderSeq(src)) |-> ExpectedSection(src, HeaderSeq(src)[n])]
        /\ \A n \in 1..Len(sections) :
             \A line \in HeaderLines : ~Includes(sections[n].content, line)
\* two headers, each with a body
C5_Witness ==
    /\ ppc = "done"
    /\ src = <<"h2", "code", "h1", "short">>
    /\ Len(sections) = 2
    /\ sections[1].sectionNumber = 12
    /\ sections[2].sectionNumber = 1

\* C6: when a header is found, the sections returned are as many as the
\* headers whose body is not blank, and each has a content that is not empty
\* and neither starts nor ends with white space.
C6_EmptyBodiesDropped ==
    (ppc = "done" /\ HeaderAt(src) # {}) =>
        /\ Len(sections) = Cardinality({i \in HeaderAt(src) : ~BlankBody(BodyOf(src, i))})
        /\ \A n \in 1..Len(sections) :
             /\ sections[n].content # <<>>
             /\ sections[n].content[1] \notin SpaceCh
             /\ sections[n].content[Len(sections[n].content)] \notin SpaceCh
\* a header with a blank body before a header with a body
C6_Witness ==
    /\ ppc = "done"
    /\ src = <<"h1", "blank", "h2", "code">>
    /\ Len(sections) = 1
    /\ sections[1].sectionNumber = 12

\* C7 as stated: the sequence returned is never empty.
C7_NeverEmpty == ppc = "done" => Len(sections) >= 1
\* C7, amended: the sequence returned is empty exactly when a header is found
\* and the body of every header is blank; it never has more sections than
\* headers, and has exactly one when there is no header.
C7_EmptyIffAllBodiesBlank ==
    ppc = "done" =>
        /\ sections = <<>> <=>
             (HeaderAt(src) # {} /\ \A i \in HeaderAt(src) : BlankBody(BodyOf(src, i)))
        /\ Len(sections) <= Max(1, Cardinality(HeaderAt(src)))
        /\ HeaderAt(src) = {} => Len(sections) = 1
\* a header followed by nothing but white space: no section at all
C7_Witness ==
    /\ ppc = "done"
    /\ src = <<"h1", "blank">>
    /\ sections = <<>>

----------------------------------------------------------------------------
(* The engine's results, told from the lines the fragment was built of     *)

\* the lines the cleaning leaves in the text
Effective(f) == SelectSeq(f, LAMBDA k : k \notin {"import", "doc", "blank"})
\* a line that does not compile makes new Function throw before anything runs
SyntaxKinds == {"syn", "ident", "eoi"}
HasSyntaxError(f) == \E i \in 1..Len(f) : f[i] \in SyntaxKinds
ThrowKinds == {"boom", "oops", "ref", "proc", "mute", "json", "pfail"}
\* the place of the first line that throws among the lines of g (Len(g) + 1
\* when none does)
FirstThrow(g) ==
    CHOOSE n \in 1..(Len(g) + 1) :
        /\ (n = Len(g) + 1 \/ g[n] \in ThrowKinds)
        /\ \A j \in 1..(n - 1) : g[j] \notin ThrowKinds
Throws(f) == FirstThrow(Effective(f)) <= Len(Effective(f))
\* the channels of the console calls made before the first throw
ConsoleBefore(f) ==
    SelectSeq(SubSeq(Effective(f), 1, FirstThrow(Effective(f)) - 1),
              LAMBDA k : k \in Channels)
\* does the fragment fail: nothing left to run, no compilation, or a throw
Fails(f) == Effective(f) = <<>> \/ HasSyntaxError(f) \/ Throws(f)
\* the message of the entry of each console line
ExpectedMessage(k) ==
    CASE k = "log" -> <<"1", " ", "a", " ", "t", "r", "u", "e">>
      [] k = "info" -> <<"n", "u", "l", "l", " ", "u", "n", "d", "e", "f", "i", "n", "e", "d">>
      [] k = "warn" -> <<"[", "1", ",", " ", "\"", "b", "\"", "]">>
      [] k = "error" -> <<"e">>

Returned == hostpc = "returned" /\ result # <<>>
\* the logs array of the result
ResultLogs == logs[result[1].logs]

\* C1: when executeCode has returned, whatever the path it took, each of the
\* four console channels is again the function that was installed when it was
\* entered.
C1_ConsoleRestored ==
    hostpc = "returned" =>
        \A ch \in Channels : console[ch] = originalConsole[1][ch] /\ console[ch].call = 0
\* the fragment logged, then threw, and the call has returned
C1_Witness ==
    /\ hostpc = "returned"
    /\ frag = <<"warn", "boom">>
    /\ compiled
    /\ result[1].error # <<>>

C3_ErrorIsLastEntry ==
    (Returned /\ result[1].error # <<>>) =>
        /\ ResultLogs # <<>>
        /\ ResultLogs[Len(ResultLogs)].type = "error"
        /\ ResultLogs[Len(ResultLogs)].message = result[1].error[1]
\* an error with the hint on "process", after an entry of the fragment
C3_Witness ==
    /\ Returned
    /\ frag = <<"info", "proc">>
    /\ Len(ResultLogs) = 2
    /\ Includes(result[1].error[1], ProcessNote)

\* C8: when the cleaning leaves nothing (an empty text, white space, imports
\* and /** */ comments only), nothing is compiled or run, the error is the
\* fixed empty-after-cleaning message, and logs holds the error entry alone.
C8_EmptyAfterCleaning ==
    (hostpc # "idle" /\ Effective(frag) = <<>>) =>
        /\ ~compiled
        /\ Len(realOut) = hostLogs
        /\ Returned =>
             /\ result[1].error = <<EmptyMsg>>
             /\ Len(ResultLogs) = 1
             /\ ResultLogs[1].type = "error"
             /\ ResultLogs[1].message = EmptyMsg
\* a comment and an import, on two lines
C8_Witness ==
    /\ Returned
    /\ frag = <<"doc", "import">>
    /\ ~compiled
    /\ Len(ResultLogs) = 1

\* C9: when the fragment throws an Error whose message ('boom') holds none
\* of the classified substrings and not 'process', error is that message
\* unchanged and the last entry of logs is an error entry with it.
C9_MessageUnchanged ==
    (/\ Returned
     /\ ~HasSyntaxError(frag)
     /\ Throws(frag)
     /\ Effective(frag)[FirstThrow(Effective(frag))] = "boom") =>
        /\ result[1].error = <<<<"b", "o", "o", "m">>>>
        /\ ResultLogs[Len(ResultLogs)].type = "error"
        /\ ResultLogs[Len(ResultLogs)].message = <<"b", "o", "o", "m">>
\* throw new Error('boom') after a console call
C9_Witness ==
    /\ Returned
    /\ frag = <<"error", "boom">>
    /\ Len(ResultLogs) = 2

\* C10: each console call the fragment makes appends exactly one entry, of
\* the type of the channel called, with the formatted arguments joined by a
\* space as its message (console.log(1, 'a', true) gives '1 a true'); the
\* entries come in the order of the calls, and error is undefined when
\* nothing is thrown.
C10_OneEntryPerCall ==
    (Returned /\ Effective(frag) # <<>> /\ ~HasSyntaxError(frag)) =>
        /\ Len(ResultLogs) = Len(ConsoleBefore(frag)) + (IF Throws(frag) THEN 1 ELSE 0)
        /\ \A n \in 1..Len(ConsoleBefore(frag)) :
             /\ ResultLogs[n].type = ConsoleBefore(frag)[n]
             /\ ResultLogs[n].message = ExpectedMessage(ConsoleBefore(frag)[n])
        /\ ~Throws(frag) => result[1].error = <<>>
\* console.log(1, 'a', true) alone
C10_Witness ==
    /\ Returned
    /\ frag = <<"log">>
    /\ result[1].error = <<>>
    /\ Len(ResultLogs) = 1
    /\ ResultLogs[1].message = <<"1", " ", "a", " ", "t", "r", "u", "e">>

\* the types of the entries a call is to leave: one per console call made
\* before the first throw, then the error entry of a call that fails
ExpectedTypes(f) ==
    IF Effective(f) = <<>> \/ HasSyntaxError(f) THEN <<"error">>
    ELSE ConsoleBefore(f) \o (IF Throws(f) THEN <<"error">> ELSE <<>>)

\* C11: the logs of a result are in emission order with non-decreasing
\* timestamps: entry i is that of the i-th console call the fragment made, and
\* the error entry of a call that fails comes after every captured entry.
C11_EmissionOrder ==
    Returned =>
        /\ [i \in 1..Len(ResultLogs) |-> ResultLogs[i].type] = ExpectedTypes(frag)
        /\ \A i \in 1..Len(ConsoleBefore(frag)) :
             (~HasSyntaxError(frag)) =>
                 ResultLogs[i].message = ExpectedMessage(ConsoleBefore(frag)[i])
        /\ \A i, j \in 1..Len(ResultLogs) :
             i < j => ResultLogs[i].timestamp <= ResultLogs[j].timestamp
        /\ result[1].error # <<>> =>
             ResultLogs[Len(ResultLogs)].message = result[1].error[1]
\* two console calls on different channels, the clock advancing between the
\* first call and the failure
C11_Witness ==
    /\ Returned
    /\ frag = <<"warn", "boom">>
    /\ Len(ResultLogs) = 2
    /\ ResultLogs[1].type = "warn"
    /\ ResultLogs[1].timestamp < ResultLogs[2].timestamp

----------------------------------------------------------------------------
(* Sessions: several calls, callbacks left behind, calls started by a      *)
(* running fragment                                                        *)

\* C12: once executeCode has returned, the logs array of its result never
\* gains another entry, whatever the fragment scheduled or retained.
C12_NoEntryAfterReturn ==
    [][\A id \in 1..Len(calls) : calls[id].result # <<>> => logs'[id] = logs[id]]_vars

\* the number of lines of f that save console.log for a callback and are run
SavedBefore(f) ==
    IF Effective(f) = <<>> \/ HasSyntaxError(f) THEN 0
    ELSE Len(SelectSeq(SubSeq(Effective(f), 1, FirstThrow(Effective(f)) - 1),
                       LAMBDA k : k = "save"))
\* the entry such a callback leaves when it runs
IsLate(entry) == entry.type = "log" /\ entry.message = <<"l", "a", "t", "e">>
\* the entries of call id are those of the lines of its own code: one per
\* console call before the first throw, the error entry, then at most one
\* per callback of its own that holds a saved channel
OwnEntriesOnly(id) ==
    /\ Len(ExpectedTypes(calls[id].frag)) <= Len(logs[id])
    /\ Len(logs[id]) <= Len(ExpectedTypes(calls[id].frag)) + SavedBefore(calls[id].frag)
    /\ \A i \in 1..Len(logs[id]) :
         IF i <= Len(ExpectedTypes(calls[id].frag))
         THEN logs[id][i].type = ExpectedTypes(calls[id].frag)[i]
         ELSE IsLate(logs[id][i])
    /\ \A i \in 1..Len(ConsoleBefore(calls[id].frag)) :
         logs[id][i].message = ExpectedMessage(ConsoleBefore(calls[id].frag)[i])

\* C13: when the calls of executeCode do not overlap, the logs of each
\* result hold only entries of the lines of that call's own code (and its
\* own error entry), and the result of a call stays what it was while later
\* calls run: logs is the array of that call, error is its own failure.
C13_NoMerging ==
    (\A id \in 1..Len(calls) : calls[id].outer = 0) =>
        \A id \in 1..Len(calls) :
            calls[id].result # <<>> =>
                /\ OwnEntriesOnly(id)
                /\ calls[id].result[1].logs = id
                /\ Fails(calls[id].frag) <=> calls[id].result[1].error # <<>>
                /\ calls[id].result[1].error # <<>> =>
                     logs[id][Len(ExpectedTypes(calls[id].frag))].message =
                         calls[id].result[1].error[1]
\* two calls one after the other; the callback of the first ran after the
\* second call had returned
C13_Witness ==
    /\ Len(calls) = 2
    /\ stack = <<>> /\ timers = <<>>
    /\ calls[1].frag = <<"save", "log">> /\ calls[1].outer = 0
    /\ calls[2].frag = <<"warn", "boom">> /\ calls[2].outer = 0
    /\ Len(logs[1]) = 2 /\ IsLate(logs[1][2])
    /\ Len(logs[2]) = 2 /\ logs[2][2].type = "error"
    /\ realOut[Len(realOut)].args = <<Str(<<"l", "a", "t", "e">>)>>

\* the entry call id received last
LastEntry(L, id) == L[id][Len(L[id])]

\* C14 as stated: console output emitted while a second call is active (the
\* fragment of the first started it) is appended to the logs of the second
\* call and not to the logs of the first.
C14_ShadowedNotAppended ==
    [][(RunConsole /\ Len(stack) >= 2) =>
          /\ logs'[Top.id] = Append(logs[Top.id], LastEntry(logs', Top.id))
          /\ \A k \in 1..(Len(stack) - 1) : logs'[stack[k].id] = logs[stack[k].id]]_vars
\* C14, amended: console output emitted while a second call is active is
\* appended to the logs of the second call and, the closure of the second
\* call forwarding to the channel it saved, to the logs of the first call as
\* well: every active call receives the same entry.
C14_AppendedToEveryActiveCall ==
    [][(RunConsole /\ Len(stack) >= 2) =>
          \A k \in 1..Len(stack) :
              /\ logs'[stack[k].id] = Append(logs[stack[k].id], LastEntry(logs', Top.id))
              /\ LastEntry(logs', Top.id).type = Top.prog[Top.ip].chan]_vars
\* console.info, then a click that runs console.log in a second call: the
\* first call holds both entries, the second one
C14_Witness ==
    /\ Len(calls) = 2
    /\ stack = <<>>
    /\ calls[1].frag = <<"info", "click">> /\ calls[1].result # <<>>
    /\ calls[2].frag = <<"log">> /\ calls[2].outer = 1 /\ calls[2].result # <<>>
    /\ [i \in 1..Len(logs[1]) |-> logs[1][i].type] = <<"info", "log">>
    /\ [i \in 1..Len(logs[2]) |-> logs[2][i].type] = <<"log">>

----------------------------------------------------------------------------
(* Termination *)

\* does the run of f get to a loop that does not end
ReachesLoop(f) ==
    /\ Effective(f) # <<>>
    /\ ~HasSyntaxError(f)
    /\ \E i \in 1..(FirstThrow(Effective(f)) - 1) : Effective(f)[i] = "loop"

\* C15 as stated: every call of executeCode eventually returns a result, for
\* every code.
C15_AlwaysReturns == (hostpc = "running") ~> (hostpc = "returned" /\ result # <<>>)
\* What holds of every code: the call returns a result unless the run gets
\* to a loop that does not end, which executeCode has no way to stop.
ReturnsUnlessLooping ==
    (hostpc = "running" /\ ~ReachesLoop(frag)) ~> (hostpc = "returned" /\ result # <<>>)

----------------------------------------------------------------------------
(* The results region *)

\* C16: after executeSandboxCode has returned the results region shows one
\* of three states and never the loader: the error state with the text of
\* the error for every run that failed, the no-results state for a run that
\* succeeded without an entry, the list of the entries for a run that
\* succeeded with entries.
C16_ThreeStates ==
    hostpc = "shown" =>
        /\ region.state \in {"error", "empty", "logs"}
        /\ Fails(frag) =>
             /\ region.state = "error"
             /\ region.text = result[1].error[1]
        /\ (~Fails(frag) /\ ConsoleBefore(frag) = <<>>) => region.state = "empty"
        /\ (~Fails(frag) /\ ConsoleBefore(frag) # <<>>) =>
             /\ region.state = "logs"
             /\ Len(region.entries) = Len(ConsoleBefore(frag))
\* What holds: the same, for the runs whose error is not the empty string;
\* a run that fails with an empty message is shown as a list of entries.
ThreeStatesUnlessMute ==
    hostpc = "shown" =>
        /\ region.state \in {"error", "empty", "logs"}
        /\ (Fails(frag) /\ result[1].error # <<<<>>>>) =>
             /\ region.state = "error"
             /\ region.text = result[1].error[1]
        /\ (Fails(frag) /\ result[1].error = <<<<>>>>) =>
             /\ region.state = "logs"
             /\ region.entries[Len(region.entries)] = [type |-> "error", message |-> <<>>]
        /\ (~Fails(frag) /\ ConsoleBefore(frag) = <<>>) => region.state = "empty"
        /\ (~Fails(frag) /\ ConsoleBefore(frag) # <<>>) =>
             /\ region.state = "logs"
             /\ Len(region.entries) = Len(ConsoleBefore(frag))

----------------------------------------------------------------------------
(* The notes added to the message of a failure *)

\* the line the failure of f comes from: the first that does not compile,
\* or else the first that throws
FailingLine(f) ==
    IF HasSyntaxError(f)
    THEN f[CHOOSE i \in 1..Len(f) :
               f[i] \in SyntaxKinds /\ \A j \in 1..(i - 1) : f[j] \notin SyntaxKinds]
    ELSE Effective(f)[FirstThrow(Effective(f))]
\* the message the JavaScript engine gives for it
RawMessage(k) ==
    CASE k = "syn" -> <<"U", "n", "e", "x", "p", "e", "c", "t", "e", "d", " ", "t", "o", "k", "e", "n", " ",
        "'", "=", "'">>
      [] k = "ident" -> <<"U", "n", "e", "x", "p", "e", "c", "t", "e", "d", " ", "i", "d", "e", "n", "t", "i",
        "f", "i", "e", "r", " ", "'", "p", "r", "o", "c", "e", "s", "s", "'">>
      [] k = "eoi" -> <<"U", "n", "e", "x", "p", "e", "c", "t", "e", "d", " ", "e", "n", "d", " ", "o", "f",
        " ", "i", "n", "p", "u", "t">>
      [] k = "json" -> <<"U", "n", "e", "x", "p", "e", "c", "t", "e", "d", " ", "t", "o", "k", "e", "n", " ",
        "}", " ", "i", "n", " ", "J", "S", "O", "N", " ", "a", "t", " ", "p", "o", "s", "i",
        "t", "i", "o", "n", " ", "0">>
      [] k = "proc" -> <<"p", "r", "o", "c", "e", "s", "s", " ", "i", "s", " ", "n", "o", "t", " ", "d", "e",
        "f", "i", "n", "e", "d">>
      [] k = "ref" -> <<"f", "o", "o", " ", "i", "s", " ", "n", "o", "t", " ", "d", "e", "f", "i", "n", "e",
        "d">>
      [] k = "pfail" -> <<"p", "r", "o", "c", "e", "s", "s", " ", "f", "a", "i", "l", "e", "d">>
      [] k = "boom" -> <<"b", "o", "o", "m">>
      [] k = "oops" -> <<"o", "o", "p", "s">>
      [] k = "mute" -> <<>>
ErreurDeSyntaxe == <<"E", "r", "r", "e", "u", "r", " ", "d", "e", " ", "s", "y", "n", "t", "a", "x", "e",
        ":", " ">>
ErreurDExecution == <<"E", "r", "r", "e", "u", "r", " ", "d", "'", "e", "x", "é", "c", "u", "t", "i", "o",
        "n", ":", " ">>
EndsWith(s, w) == Len(s) >= Len(w) /\ SubSeq(s, Len(s) - Len(w) + 1, Len(s)) = w
\* a call that has returned the failure of one of the lines of its code
Failed == Returned /\ Effective(frag) # <<>> /\ (HasSyntaxError(frag) \/ Throws(frag))

\* C17 as stated: when the message of the failure holds 'Unexpected token',
\* 'Unexpected identifier' or 'Unexpected end of input', error is exactly
\* that message followed by the note on unsupported syntax.
C17_MessageThenNote ==
    (Failed /\ FailingLine(frag) \in {"syn", "ident", "eoi", "json"}) =>
        result[1].error = <<RawMessage(FailingLine(frag)) \o SyntaxNote>>
\* C17, amended: error is 'Erreur de syntaxe: ', then that message, then the
\* note on unsupported syntax, then the note on the browser when the message
\* holds 'process'.
C17_PrefixMessageNote ==
    (Failed /\ FailingLine(frag) \in {"syn", "ident", "eoi", "json"}) =>
        result[1].error =
            <<ErreurDeSyntaxe \o RawMessage(FailingLine(frag)) \o SyntaxNote
              \o (IF FailingLine(frag) = "ident" THEN ProcessNote ELSE <<>>)>>
\* a SyntaxError thrown when the code is run, after a console call
C17_Witness ==
    /\ Returned
    /\ frag = <<"log", "json">>
    /\ Len(ResultLogs) = 2
    /\ StartsWith(result[1].error[1], ErreurDeSyntaxe)
    /\ EndsWith(result[1].error[1], SyntaxNote)

\* C18: the note on the browser is added to error exactly when the message,
\* once classified, holds 'process', whatever the class: 'process is not
\* defined' carries the note on definitions and the note on the browser, a
\* failure whose message does not hold 'process' never carries the latter.
C18_ProcessNote ==
    Failed =>
        /\ FailingLine(frag) \in {"proc", "ident", "pfail"} <=>
               EndsWith(result[1].error[1], ProcessNote)
        /\ FailingLine(frag) \notin {"proc", "ident", "pfail"} =>
               ~Includes(result[1].error[1], ProcessNote)
        /\ FailingLine(frag) = "proc" =>
               result[1].error[1] =
                   ErreurDExecution \o RawMessage("proc") \o RuntimeNote \o ProcessNote
        /\ FailingLine(frag) = "pfail" =>
               result[1].error[1] = RawMessage("pfail") \o ProcessNote
\* process.exit(1): both notes
C18_Witness ==
    /\ Returned
    /\ frag = <<"proc">>
    /\ Includes(result[1].error[1], RuntimeNote)
    /\ EndsWith(result[1].error[1], ProcessNote)

----------------------------------------------------------------------------
(* The loader *)

\* Is every line of text a // comment?
AllComments(text) ==
    \A i \in 1..Len(Split(text, NL)) : StartsWith(Split(text, NL)[i], <<"/", "/">>)
\* the names that are no key of fileMap
Unknown(filename) == filename \notin FileMapKeys

\* C19: a failure never leaves loadCodeExample: for a name that is unknown
\* or an import that fails, it resolves with a text of which every line is a
\* // comment, naming the file and the failure.
C19_PlaceholderOnFailure ==
    /\ load.pc # "rejected"
    /\ (load.pc = "resolved" /\ Unknown(load.filename)) =>
         /\ load.value[1] # <<>>
         /\ AllComments(load.value[1])
         /\ Includes(load.value[1], load.filename)
\* What holds: the same for an import that fails and for the names for which
\* fileMap gives nothing that can be called with a result.
PlaceholderUnlessInherited ==
    /\ load.pc # "rejected"
    /\ load.exc = <<>> \/ load.pc = "catch"
    /\ (load.pc = "resolved" /\ Unknown(load.filename) /\ load.filename # Constructor) =>
         /\ AllComments(load.value[1])
         /\ Len(Split(load.value[1], NL)) = 2
         /\ Includes(Split(load.value[1], NL)[1], load.filename)
         /\ realOut # <<>>
    /\ (load.pc = "resolved" /\ ~Unknown(load.filename) /\ realOut # <<>>) =>
         /\ AllComments(load.value[1])
         /\ Includes(Split(load.value[1], NL)[1], load.filename)
         /\ \E e \in ImportFailures : EndsWith(load.value[1], <<"/", "/", " ">> \o e.text)

----------------------------------------------------------------------------
(* Cleaning twice *)

\* C20: cleanCodeForExecution is idempotent on JavaScript that has no type
\* syntax: cleaning the cleaned text gives the cleaned text.
C20_Idempotent == strip.pc = "twice" => strip.twice = strip.once
\* What holds: the same for the texts without a conditional expression whose
\* last operand is an arrow function behind a call.
IdempotentUnlessConditional ==
    (strip.pc = "twice" /\ \A i \in 1..Len(strip.lines) : strip.lines[i] # "cond") =>
        strip.twice = strip.once

----------------------------------------------------------------------------
(* Typed declarations *)

\* the lines of the cleaned text of the running call
CleanLines == Split(Top.cleanCode, NL)
HasCleaned == stack # <<>> /\ Top.pc # "clean"
\* Is line the declaration of name with the parameters formals and the body
\* body, without any annotation?
DeclaredAs(line, name, formals, body) ==
    LET m == MatchAt(reDeclaration, line, 1)
    IN /\ m.ok
       /\ Cap(line, m, 1) = name
       /\ FormalsOf(Cap(line, m, 2)) = formals
       /\ Trim(Cap(line, m, 3)) = body
       /\ \A i \in 1..Len(line) : line[i] # ":"
\* the messages of the entries of the result
Messages == [i \in 1..Len(ResultLogs) |-> ResultLogs[i].message]

----------------------------------------------------------------------------
(* Comments *)

\* the lines of the fragment that are // comments
CommentKinds == {"cmt", "sig"}
Verbatim(k) == \E i \in 1..Len(CleanLines) : CleanLines[i] = LineText(k)

\* what "sig" is turned into
SigCleaned == <<"/", "/", " ", "S", "y", "n", "t", "a", "x", "e", ":", " ", "f", "u", "n", "c", "t",
      "i", "o", "n", " ", "f", "(", "p", ")", "{", " ", ".", ".", ".", " ", "}">>

\* C22: the cleaning removes the /** ... */ comments and leaves every //
\* comment line of the input as it is in the output.
C22_LineCommentsVerbatim ==
    HasCleaned =>
        /\ ~Includes(Top.cleanCode, <<"/", "*", "*">>)
        /\ \A i \in 1..Len(frag) : frag[i] \in CommentKinds => Verbatim(frag[i])
\* What holds: the /** ... */ comments are removed, and a // comment that
\* holds nothing the later steps take for a declaration is left as it is,
\* unless it follows a type alias that has no semicolon.
Swallowed(i) == \E j \in 1..(i - 1) : frag[j] = "alias"
LineCommentsVerbatimUnlessTyped ==
    HasCleaned =>
        /\ ~Includes(Top.cleanCode, <<"/", "*", "*">>)
        /\ \A i \in 1..Len(frag) : (frag[i] = "cmt" /\ ~Swallowed(i)) => Verbatim("cmt")
        /\ \A i \in 1..Len(frag) : (frag[i] = "sig" /\ ~Swallowed(i)) =>
              /\ ~Verbatim("sig")
              /\ \E j \in 1..Len(CleanLines) : CleanLines[j] = SigCleaned

----------------------------------------------------------------------------
(* Type aliases *)

AliasKinds == {"alias", "aliasSemi"}
\* the lines that are statements to run
StatementKinds == {"log", "call"}
\* a type alias first, then a statement
AliasThenStatement ==
    Len(frag) = 2 /\ frag[1] \in AliasKinds /\ frag[2] \in StatementKinds

\* C23: the removal of a top-level type alias removes that declaration alone:
\* the statement that follows it is in the cleaned text, unchanged, with or
\* without semicolons.
C23_OnlyTheAlias ==
    (HasCleaned /\ AliasThenStatement) => Top.cleanCode = LineText(frag[2])
\* What holds: so it is when the alias ends with a semicolon; without one
\* the statement is removed with the alias, and nothing is left to run.
OnlyTheAliasWhenTerminated ==
    /\ (HasCleaned /\ AliasThenStatement /\ frag[1] = "aliasSemi") =>
          Top.cleanCode = LineText(frag[2])
    /\ (HasCleaned /\ AliasThenStatement /\ frag[1] = "alias") => Top.cleanCode = <<>>
    /\ (Returned /\ frag = <<"alias", "log">>) => result[1].error = <<EmptyMsg>>
    /\ (Returned /\ frag = <<"aliasSemi", "log">>) =>
          result[1].error = <<>> /\ Len(ResultLogs) = 1

----------------------------------------------------------------------------
(* Titles *)

\* C24: every section that comes from a matched header has a title that is
\* not empty.
C24_TitleNotEmpty ==
    ppc = "done" => \A i \in 1..Len(sections) : sections[i].title # <<>>
\* What holds: the title is the trimmed capture, which is empty when only
\* blanks follow the colon; 'Section' is never the title.
TitleIsTrimmedCapture ==
    ppc = "done" =>
        /\ \A i \in 1..Len(sections) : sections[i].title # TitleSection
        /\ (\A i \in 1..Len(src) : src[i] # "h0") =>
              \A i \in 1..Len(sections) : sections[i].title \in {<<"A">>, TitleComplet}
        /\ (Len(src) = 2 /\ src[2] = "code") =>
              /\ src[1] = "h0" => sections = <<[title |-> <<>>, content |-> <<"x", ";">>,
                                               sectionNumber |-> 4]>>
              /\ src[1] = "h1" => sections = <<[title |-> <<"A">>, content |-> <<"x", ";">>,
                                               sectionNumber |-> 1]>>

----------------------------------------------------------------------------
(* Nested calls *)

\* the call id was started by the running call, and has returned to it
ReturnedToTop(id) ==
    /\ stack # <<>>
    /\ calls[id].outer = Top.id
    /\ calls[id].result # <<>>
    /\ Top.pc # "return"

\* C25: nested calls unwind the substitution last in, first out: once the
\* inner call has returned, and until the finally block of the outer call has
\* run, the channels are the capturing functions of the outer call; once no
\* call is active they are the functions installed before the outer call.
C25_LifoUnwinding ==
    /\ \A id \in 1..Len(calls) : ReturnedToTop(id) => console = CaptureConsole(Top.id)
    /\ stack = <<>> => console = NativeConsole
    /\ \A k \in 1..Len(stack) :
          originalConsole[stack[k].id] =
              IF k = 1 THEN NativeConsole ELSE CaptureConsole(stack[k - 1].id)
\* a click started a second call, which has returned; the first goes on
C25_Witness ==
    /\ Len(stack) = 1
    /\ Len(calls) = 2
    /\ ReturnedToTop(2)
    /\ calls[1].frag = <<"click", "warn">>
    /\ Top.pc = "run"
    /\ console = CaptureConsole(1)

----------------------------------------------------------------------------
(* Forwarding *)

\* C26: a captured console call forwards to the real channel of its kind
\* once, with its arguments, before its entry is appended, and while a call
\* of executeCode is active the real channels receive nothing else.
C26_ForwardedOnceBefore ==
    [][/\ RunConsole =>
            /\ realOut' = Append(realOut, [type |-> Top.prog[Top.ip].chan,
                                           args |-> Top.prog[Top.ip].args,
                                           entries |-> Captured(logs)])
            /\ Captured(logs') = Captured(logs) + 1
            /\ LastEntry(logs', Top.id).type = Top.prog[Top.ip].chan
       /\ (stack # <<>> /\ ~RunConsole) => realOut' = realOut]_vars
\* console.log, then console.warn: the real channels have received both, each
\* before its entry was there
C26_Witness ==
    /\ Returned
    /\ frag = <<"log", "warn">>
    /\ hostLogs = 0
    /\ Len(realOut) = 2
    /\ realOut[1].type = "log" /\ realOut[1].entries = 0
    /\ realOut[2].type = "warn" /\ realOut[2].entries = 1
    /\ Len(ResultLogs) = 2

\* The same in a session, where a console call may reach the real channel
\* through the closures of several calls: the real channel receives it once,
\* before any of the entries.
ForwardedOnceInSessions ==
    [][RunConsole =>
          /\ realOut' = Append(realOut, [type |-> Top.prog[Top.ip].chan,
                                         args |-> Top.prog[Top.ip].args,
                                         entries |-> Captured(logs)])
          /\ Captured(logs') = Captured(logs) + Len(stack)]_vars

----------------------------------------------------------------------------
(* Parameter lists *)

\* the parameters of the declaration that line is, blanks left out
Squeezed(s) == SelectSeq(s, LAMBDA c : c # " ")
ParametersOf(line) ==
    LET formals == FormalsOf(Cap(line, MatchAt(reDeclaration, line, 1), 2))
    IN [k \in 1..Len(formals) |-> Squeezed(formals[k])]
\* the parameters of the declarations of TypedKinds other than this, each
\* without its type
ExpectedParameters(k) ==
    CASE k = "add" -> <<<<"a">>, <<"b">>>>
      [] k = "this" -> <<<<"s", "t", "e", "p", "=", "1">>>>
      [] k = "rest" -> <<<<".", ".", ".", "n", "s">>>>
      [] k = "def" -> <<<<"x">>, <<"n", "=", "2">>>>
      [] k = "objp" -> <<<<"p">>, <<"q">>>>
DeclarationKinds == {"add", "this", "rest", "def", "objp"}

\* C27: in the parameter list of a function declaration the cleaning drops a
\* leading this: Type, reduces ...name: T[] to ...name and name: Type =
\* default to name = default; the parameters that remain are those of the
\* input other than this, as many and in the same order.
C27_ParametersKept ==
    (HasCleaned /\ frag[1] \in DeclarationKinds) =>
        /\ MatchAt(reDeclaration, CleanLines[1], 1).ok
        /\ ParametersOf(CleanLines[1]) = ExpectedParameters(frag[1])
\* What holds: so it is when no type of the list holds a comma; the list is
\* split at every comma, and what follows a comma inside a type becomes a
\* parameter.
ParametersKeptUnlessCommaInType ==
    (HasCleaned /\ frag[1] \in DeclarationKinds) =>
        /\ MatchAt(reDeclaration, CleanLines[1], 1).ok
        /\ frag[1] # "objp" => ParametersOf(CleanLines[1]) = ExpectedParameters(frag[1])
        /\ frag[1] = "objp" => ParametersOf(CleanLines[1]) = <<<<"p">>, <<"y">>, <<"q">>>>

----------------------------------------------------------------------------
(* Navigation *)

\* C28: when every load has completed, the concept display shows the concept
\* whose button is marked active (the one selected last), in whatever order
\* the loads completed.
C28_ActiveConceptShown ==
    page.pending = <<>> => page.display.concept = page.active
\* What holds: the display shows the concept whose load completed last; only
\* the loader is always that of the active concept.
LoaderIsOfActiveConcept ==
    page.display.state = "loading" => page.display.concept = page.active

----------------------------------------------------------------------------
(* The sectioned view *)

Panels == page.display.panels
\* the results regions other than that of section index are as they were
OthersKept(index) ==
    \A j \in DOMAIN Panels \ {index} : page'.display.panels[j].region = Panels[j].region

\* C29: in the sectioned view, running section i (the click that shows the
\* loader and the step that shows the result) or clearing section i leaves
\* the results region of every other section as it was, also when another
\* section declares the same sectionNumber: the regions are keyed by the
\* position of the section.
C29_OnlyItsRegion ==
    [][\A index \in DOMAIN Panels :
          (\/ RunSection(index)
           \/ ClearSection(index)
           \/ (RenderSection /\ calls[Len(calls)].frag = Panels[index].content
                             /\ Panels[index].region = Loading))
            => OthersKept(index)]_vars
\* two sections declare the same number; the second has been run and shows
\* its result, the region of the first still shows the placeholder
C29_Witness ==
    /\ page.display.state = "sections"
    /\ Panels[1].sectionNumber = Panels[2].sectionNumber
    /\ hostpc = "shown"
    /\ Panels[2].region.state \in {"logs", "error"}
    /\ Panels[1].region = Placeholder

----------------------------------------------------------------------------
(* A failure after output *)

\* the fragment has written to the console and then failed
FailedAfterOutput ==
    /\ hostpc = "shown"
    /\ ~HasSyntaxError(frag)
    /\ Throws(frag)
    /\ ConsoleBefore(frag) # <<>>
\* the result holds the entries captured before the failure, then the entry
\* of the error
EarlierEntriesReturned ==
    /\ Len(ResultLogs) = Len(ConsoleBefore(frag)) + 1
    /\ \A i \in 1..Len(ConsoleBefore(frag)) :
         /\ ResultLogs[i].type = ConsoleBefore(frag)[i]
         /\ ResultLogs[i].message = ExpectedMessage(ConsoleBefore(frag)[i])
    /\ ResultLogs[Len(ResultLogs)].type = "error"
    /\ <<ResultLogs[Len(ResultLogs)].message>> = result[1].error

\* C30: when a run fails after the fragment has produced console output, the
\* result holds the earlier entries before the error entry, and the results
\* region shows the error text only, none of the earlier entries.
C30_OnlyTheErrorShown ==
    FailedAfterOutput =>
        /\ EarlierEntriesReturned
        /\ region = [state |-> "error", text |-> result[1].error[1], entries |-> <<>>]
\* What holds: the same when the message of the error is not empty; with an
\* empty message the region shows the list, the earlier entries included.
OnlyTheErrorShownUnlessMute ==
    FailedAfterOutput =>
        /\ EarlierEntriesReturned
        /\ result[1].error # <<<<>>>> =>
             region = [state |-> "error", text |-> result[1].error[1], entries |-> <<>>]
        /\ result[1].error = <<<<>>>> =>
             /\ region.state = "logs"
             /\ Len(region.entries) = Len(ResultLogs)

====
